---------------------------- MODULE Spec2Model ----------------------------
(***************************************************************************)
(* A model of the Lua code generator of flatbuffers (src/idl_gen_lua.cpp). *)
(*                                                                         *)
(* The generator is a single-pass transformation from a parsed schema to   *)
(* one text artifact per definition.  The state of the model is the        *)
(* generator's position in generate() (which loop it is in, the index of   *)
(* the next definition), the artifacts saved so far and generate()'s       *)
(* result.  Text is modelled line by line: every line the generator        *)
(* appends to the code buffer is one record (see Line), identifiers are    *)
(* sequences of one-character strings, so that keyword escaping and camel  *)
(* casing are computed on characters as the code computes them.            *)
(***************************************************************************)
EXTENDS Integers, Sequences, FiniteSets, TLC

(***************************************************************************)
(* Bounds of the model.                                                    *)
(***************************************************************************)
\* the largest number of field templates drawn for the definition under test
MaxFields == 2

(***************************************************************************)
(* Characters and identifiers.                                             *)
(***************************************************************************)
Lower == <<"a","b","c","d","e","f","g","h","i","j","k","l","m",
           "n","o","p","q","r","s","t","u","v","w","x","y","z">>

Upper == <<"A","B","C","D","E","F","G","H","I","J","K","L","M",
           "N","O","P","Q","R","S","T","U","V","W","X","Y","Z">>

\* toupper() of the C library on one character
ToUpper(c) ==
  IF \E i \in 1..Len(Lower) : Lower[i] = c
    THEN Upper[CHOOSE i \in 1..Len(Lower) : Lower[i] = c]
    ELSE c

RECURSIVE MakeCamelFrom(_, _, _)
MakeCamelFrom(in, i, first) ==
  IF i > Len(in) THEN <<>>
  ELSE IF i = 1 /\ first
    THEN <<ToUpper(in[1])>> \o MakeCamelFrom(in, 2, first)
  ELSE IF in[i] = "_" /\ i + 1 <= Len(in)
    THEN <<ToUpper(in[i + 1])>> \o MakeCamelFrom(in, i + 2, first)
  ELSE <<in[i]>> \o MakeCamelFrom(in, i + 1, first)

\* MakeCamel(in, first) of flatbuffers/util.h
MakeCamel(in, first) == MakeCamelFrom(in, 1, first)

\* the reserved words the constructor inserts into keywords_
keywords ==
  { <<"a","n","d">>, <<"b","r","e","a","k">>, <<"d","o">>,
    <<"e","l","s","e">>, <<"e","l","s","e","i","f">>, <<"e","n","d">>,
    <<"f","a","l","s","e">>, <<"f","o","r">>,
    <<"f","u","n","c","t","i","o","n">>, <<"g","o","t","o">>,
    <<"i","f">>, <<"i","n">>, <<"l","o","c","a","l">>, <<"n","i","l">>,
    <<"n","o","t">>, <<"o","r">>, <<"r","e","p","e","a","t">>,
    <<"r","e","t","u","r","n">>, <<"t","h","e","n">>, <<"t","r","u","e">>,
    <<"u","n","t","i","l">>, <<"w","h","i","l","e">> }

\* a plausible slip: the prefix is added to every name
EscapeKeywordAlways(name) == <<"_">> \o name

EscapeKeyword(name) ==
  IF name \notin keywords THEN name ELSE <<"_">> \o name

\* NormalizedName(definition) and NormalizedName(ev): both escape def.name
NormalizedName(def) == EscapeKeyword(def.name)

NormalizedMetaName(def) == EscapeKeyword(def.name) \o <<"_","m","t">>


(***************************************************************************)
(* The schema the parser hands over (flatbuffers/idl.h).  A Type is a      *)
(* base type, the element type of a vector, and references to a struct     *)
(* and an enum definition, held as indexes into parser.structs and         *)
(* parser.enums with 0 for the null pointer.                               *)
(***************************************************************************)
Type(bt, el, sd, ed) ==
  [base_type |-> bt, element |-> el, struct_def |-> sd, enum_def |-> ed]

\* Type::VectorType()
VectorType(type) == Type(type.element, "NONE", type.struct_def, type.enum_def)

\* IsScalar(): BASE_TYPE_UTYPE .. BASE_TYPE_DOUBLE
ScalarTypes ==
  {"UTYPE", "BOOL", "CHAR", "UCHAR", "SHORT", "USHORT", "INT", "UINT",
   "LONG", "ULONG", "FLOAT", "DOUBLE"}

IsScalar(bt) == bt \in ScalarTypes

\* IsStruct(): a struct reference to a fixed struct
IsStruct(structs, type) ==
  type.base_type = "STRUCT" /\ structs[type.struct_def].fixed

\* SizeOf(): the inline size of a base type; offsets take 4 bytes
SizeOf(bt) ==
  CASE bt \in {"NONE", "UTYPE", "BOOL", "CHAR", "UCHAR"} -> 1
    [] bt \in {"SHORT", "USHORT"} -> 2
    [] bt \in {"LONG", "ULONG", "DOUBLE"} -> 8
    [] OTHER -> 4

InlineSize(structs, type) ==
  IF IsStruct(structs, type) THEN structs[type.struct_def].bytesize
  ELSE SizeOf(type.base_type)

InlineAlignment(structs, type) ==
  IF IsStruct(structs, type) THEN structs[type.struct_def].minalign
  ELSE SizeOf(type.base_type)

\* the PTYPE column of FLATBUFFERS_GEN_TYPES, indexed by base type
GenTypeBasic(bt) ==
  CASE bt \in {"NONE", "UTYPE", "UCHAR"} -> <<"u","i","n","t","8">>
    [] bt = "BOOL" -> <<"b","o","o","l">>
    [] bt = "CHAR" -> <<"i","n","t","8">>
    [] bt = "SHORT" -> <<"i","n","t","1","6">>
    [] bt = "USHORT" -> <<"u","i","n","t","1","6">>
    [] bt = "INT" -> <<"i","n","t","3","2">>
    [] bt = "UINT" -> <<"u","i","n","t","3","2">>
    [] bt = "LONG" -> <<"i","n","t","6","4">>
    [] bt = "ULONG" -> <<"u","i","n","t","6","4">>
    [] bt = "FLOAT" -> <<"f","l","o","a","t","3","2">>
    [] bt = "DOUBLE" -> <<"f","l","o","a","t","6","4">>
    [] OTHER -> <<"i","n","t">>

(***************************************************************************)
(* The layout resolver of the parser: Parser::AddField and                 *)
(* StructDef::PadLastField.  It runs before the generator; the model uses  *)
(* it to build schemas whose offsets, paddings and sizes are the ones the  *)
(* generator is really given.                                              *)
(***************************************************************************)
PaddingBytes(size, align) == (align - (size % align)) % align

PadLastField(sd, align) ==
  LET padding == PaddingBytes(sd.bytesize, align)
      n == Len(sd.fields)
  IN [sd EXCEPT !.bytesize = sd.bytesize + padding,
                !.fields = IF n = 0 THEN sd.fields
                           ELSE [sd.fields EXCEPT ![n].padding = padding]]

Max(a, b) == IF a >= b THEN a ELSE b

\* f is [name, type, constant, deprecated]
AddField(structs, sd, f) ==
  IF sd.fixed
    THEN LET align == InlineAlignment(structs, f.type)
             padded == PadLastField([sd EXCEPT !.minalign = Max(sd.minalign, align)],
                                    align)
             field == [name |-> f.name, type |-> f.type, constant |-> f.constant,
                       deprecated |-> f.deprecated, padding |-> 0,
                       offset |-> padded.bytesize]
         IN [padded EXCEPT !.fields = Append(padded.fields, field),
                           !.bytesize = padded.bytesize + InlineSize(structs, f.type)]
    ELSE [sd EXCEPT !.fields =
            Append(sd.fields,
                   [name |-> f.name, type |-> f.type, constant |-> f.constant,
                    deprecated |-> f.deprecated, padding |-> 0,
                    offset |-> (Len(sd.fields) + 2) * 2])]

RECURSIVE AddFields(_, _, _)
AddFields(structs, sd, fs) ==
  IF fs = <<>> THEN sd
  ELSE AddFields(structs, AddField(structs, sd, Head(fs)), Tail(fs))

\* a struct or table definition as the parser leaves it
MakeStructDef(structs, ns, name, fixed, generated, fs) ==
  LET empty == [name |-> name, ns |-> ns, fixed |-> fixed, generated |-> generated,
                fields |-> <<>>, bytesize |-> 0, minalign |-> 1]
      filled == AddFields(structs, empty, fs)
  IN IF fixed THEN PadLastField(filled, filled.minalign) ELSE filled

(***************************************************************************)
(* The code buffer.  Every line appended to it is one record: op names the *)
(* line's template, cls the class or metatable a function is declared on,  *)
(* fn the declared function, args its parameters, call the runtime method  *)
(* the line calls, vals the values it passes or returns, n and m the       *)
(* numbers printed with NumToString.  path is not text: it records the     *)
(* field (as indexes from the outermost struct) a builder line was         *)
(* emitted for.                                                            *)
(***************************************************************************)
Line(op, cls, fn, args, call, vals, n, m) ==
  [op |-> op, cls |-> cls, fn |-> fn, args |-> args, call |-> call,
   vals |-> vals, n |-> n, m |-> m, path |-> <<>>]

Op(op) == Line(op, <<>>, <<>>, <<>>, <<>>, <<>>, 0, 0)

At(line, path) == [line EXCEPT !.path = path]

RECURSIVE Join(_, _)
\* the components of a namespace followed by a name, "." between them
Join(components, name) ==
  IF components = <<>> THEN name
  ELSE Head(components) \o <<".">> \o Join(Tail(components), name)

\* Namespace::GetFullyQualifiedName
GetFullyQualifiedName(def) == Join(def.ns, def.name)

GenTypePointer(structs, type) ==
  CASE type.base_type = "STRING" -> <<"s","t","r","i","n","g">>
    [] type.base_type = "VECTOR" ->
         LET vt == VectorType(type)
         IN IF IsScalar(vt.base_type) THEN GenTypeBasic(vt.base_type)
            ELSE CASE vt.base_type = "STRING" -> <<"s","t","r","i","n","g">>
                   [] vt.base_type = "STRUCT" -> structs[vt.struct_def].name
                   [] OTHER -> <<"*","f","l","a","t","b","u","f","f","e","r","s",
                                 ".","T","a","b","l","e">>
    [] type.base_type = "STRUCT" -> structs[type.struct_def].name
    [] OTHER -> <<"*","f","l","a","t","b","u","f","f","e","r","s",
                  ".","T","a","b","l","e">>

GenTypeGet(structs, type) ==
  IF IsScalar(type.base_type) THEN GenTypeBasic(type.base_type)
  ELSE GenTypePointer(structs, type)

\* the runtime reader GenGetter names: String, Union, or Get of a number type
GenGetter(structs, type) ==
  LET t == IF type.base_type = "VECTOR" THEN VectorType(type) ELSE type
  IN CASE t.base_type = "STRING" -> <<"S","t","r","i","n","g">>
       [] t.base_type = "UNION" -> <<"U","n","i","o","n">>
       [] OTHER -> <<"G","e","t",":">> \o MakeCamel(GenTypeGet(structs, t), TRUE)

GenMethod(structs, field) ==
  IF IsScalar(field.type.base_type)
    THEN MakeCamel(GenTypeBasic(field.type.base_type), TRUE)
  ELSE IF IsStruct(structs, field.type) THEN <<"S","t","r","u","c","t">>
  ELSE <<"U","O","f","f","s","e","t","T","R","e","l","a","t","i","v","e">>

\* GetNamespace(type): the qualified name of the struct, else of the enum
GetNamespace(parser, type) ==
  IF type.struct_def # 0 THEN GetFullyQualifiedName(parser.structs[type.struct_def])
  ELSE IF type.enum_def # 0 THEN GetFullyQualifiedName(parser.enums[type.enum_def])
  ELSE <<>>

TypeNameWithNamespace(parser, field) == GetNamespace(parser, field.type)

\* GenReceiver and the method name: "function <meta>:<name>(<args>)"
Method(struct_def, name, args) ==
  Line("method", NormalizedMetaName(struct_def), name, args, <<>>, <<>>, 0, 0)

\* "function <module>.<name>(<args>)"
Function(struct_def, name, args) ==
  Line("function", NormalizedName(struct_def), name, args, <<>>, <<>>, 0, 0)

\* a plausible slip: the presence test is left out
OffsetPrefixMissing(field) == <<>>

\* "local o = self.view:Offset(<offset>)" and "if o ~= 0 then"
OffsetPrefix(field) ==
  << Line("local_o", <<>>, <<>>, <<>>, <<"O","f","f","s","e","t">>, <<>>,
          field.offset, 0),
     Op("if_o") >>

BeginClass(struct_def) ==
  << Line("local_module", NormalizedName(struct_def), <<>>, <<>>, <<>>, <<>>, 0, 0),
     Line("local_metatable", NormalizedMetaName(struct_def), <<>>, <<>>, <<>>, <<>>,
          0, 0),
     Op("blank") >>

GenerateNewObjectPrototype(struct_def) ==
  << Function(struct_def, <<"N","e","w">>, <<>>),
     Op("local_o_table"),
     Line("setmetatable", NormalizedMetaName(struct_def), <<>>, <<>>, <<>>, <<>>, 0, 0),
     Op("return_o"),
     Op("endfunc") >>

NewRootTypeFromBuffer(struct_def) ==
  << Function(struct_def, <<"G","e","t","R","o","o","t","A","s">>
                            \o NormalizedName(struct_def),
              << <<"b","u","f">>, <<"o","f","f","s","e","t">> >>),
     Op("local_n_UOffsetT"),
     Line("local_o_New", NormalizedName(struct_def), <<>>, <<>>, <<"N","e","w">>,
          <<>>, 0, 0),
     Op("o_Init"),
     Op("return_o"),
     Op("endfunc") >>

InitializeExisting(struct_def) ==
  << Method(struct_def, <<"I","n","i","t">>, << <<"b","u","f">>, <<"p","o","s">> >>),
     Op("view_New"),
     Op("endfunc") >>

(***************************************************************************)
(* Accessors.  A line whose op starts a read of the buffer is a decode     *)
(* line; "end_if" closes the block "if o ~= 0 then" opened by              *)
(* OffsetPrefix.                                                           *)
(***************************************************************************)
FieldCamel(field) == MakeCamel(EscapeKeyword(field.name), TRUE)

GetVectorLen(struct_def, field) ==
  << Method(struct_def, FieldCamel(field) \o <<"L","e","n","g","t","h">>, <<>>) >>
  \o OffsetPrefix(field)
  \o << Line("return_call", <<>>, <<>>, <<>>, <<"V","e","c","t","o","r","L","e","n">>,
             << <<"o">> >>, 0, 0),
        Op("end_if"),
        Line("return", <<>>, <<>>, <<>>, <<>>, << <<"0">> >>, 0, 0),
        Op("endfunc") >>

\* "return self.view:Get(flatbuffers.N.<T>, self.view.pos + <offset>)"
GetScalarFieldOfStruct(structs, struct_def, field) ==
  << Method(struct_def, FieldCamel(field), <<>>),
     Line("return_call", <<>>, <<>>, <<>>, GenGetter(structs, field.type),
          << <<"p","o","s">> >>, field.offset, 0),
     Op("endfunc") >>

\* a plausible slip: the absent branch returns 0 whatever the default
ScalarDefaultZero(field) == <<"0">>

\* the literal GetScalarFieldOfTable returns after the presence block
ScalarDefault(field) ==
  IF field.type.base_type = "BOOL"
    THEN IF field.constant = <<"0">> THEN <<"f","a","l","s","e">>
         ELSE <<"t","r","u","e">>
    ELSE field.constant

\* "return self.view:Get(.., o + self.view.pos)", "(.. ~= 0)" for a bool
GetScalarFieldOfTable(structs, struct_def, field) ==
  << Method(struct_def, FieldCamel(field), <<>>) >>
  \o OffsetPrefix(field)
  \o << Line(IF field.type.base_type = "BOOL" THEN "return_call_ne_0"
             ELSE "return_call",
             <<>>, <<>>, <<>>, GenGetter(structs, field.type),
             << <<"o">>, <<"p","o","s">> >>, 0, 0),
        Op("end_if"),
        Line("return", <<>>, <<>>, <<>>, <<>>, << ScalarDefault(field) >>, 0, 0),
        Op("endfunc") >>

\* "obj:Init(self.view.bytes, self.view.pos + <offset>)", "return obj"
GetStructFieldOfStruct(struct_def, field) ==
  << Method(struct_def, FieldCamel(field), << <<"o","b","j">> >>),
     Line("obj_Init", <<>>, <<>>, <<>>, <<"I","n","i","t">>, << <<"p","o","s">> >>,
          field.offset, 0),
     Line("return", <<>>, <<>>, <<>>, <<>>, << <<"o","b","j">> >>, 0, 0),
     Op("endfunc") >>

GetStructFieldOfTable(parser, struct_def, field) ==
  << Method(struct_def, FieldCamel(field), <<>>) >>
  \o OffsetPrefix(field)
  \o << IF parser.structs[field.type.struct_def].fixed
          THEN Line("local_x", <<>>, <<>>, <<>>, <<>>, << <<"o">>, <<"p","o","s">> >>,
                    0, 0)
          ELSE Line("local_x", <<>>, <<>>, <<>>, <<"I","n","d","i","r","e","c","t">>,
                    << <<"o">>, <<"p","o","s">> >>, 0, 0),
        Line("local_obj_New", TypeNameWithNamespace(parser, field), <<>>, <<>>,
             <<"N","e","w">>, <<>>, 0, 0),
        Line("obj_Init", <<>>, <<>>, <<>>, <<"I","n","i","t">>, << <<"x">> >>, 0, 0),
        Line("return", <<>>, <<>>, <<>>, <<>>, << <<"o","b","j">> >>, 0, 0),
        Op("end_if"),
        Op("endfunc") >>

\* "return self.view:String(o + self.view.pos)" inside the block, then "end"
GetStringField(structs, struct_def, field) ==
  << Method(struct_def, FieldCamel(field), <<>>) >>
  \o OffsetPrefix(field)
  \o << Line("return_call", <<>>, <<>>, <<>>, GenGetter(structs, field.type),
             << <<"o">>, <<"p","o","s">> >>, 0, 0),
        Op("end_if"),
        Op("endfunc") >>

GetUnionField(structs, struct_def, field) ==
  << Method(struct_def, FieldCamel(field), <<>>) >>
  \o OffsetPrefix(field)
  \o << Op("local_obj_view"),
        Line("call", <<>>, <<>>, <<>>, GenGetter(structs, field.type),
             << <<"o","b","j">>, <<"o">> >>, 0, 0),
        Line("return", <<>>, <<>>, <<>>, <<>>, << <<"o","b","j">> >>, 0, 0),
        Op("end_if"),
        Op("endfunc") >>

\* a plausible slip: every struct element is reached through an offset
GetMemberOfVectorOfStructIndirect(parser, struct_def, field) ==
  LET vectortype == VectorType(field.type)
  IN << Method(struct_def, FieldCamel(field), << <<"j">> >>) >>
     \o OffsetPrefix(field)
     \o << Line("local_x", <<>>, <<>>, <<>>, <<"V","e","c","t","o","r">>,
                << <<"o">> >>, 0, 0),
           Line("x_add_index", <<>>, <<>>, <<>>, <<>>, <<>>,
                InlineSize(parser.structs, vectortype), 0),
           Line("x_Indirect", <<>>, <<>>, <<>>,
                <<"I","n","d","i","r","e","c","t">>, << <<"x">> >>, 0, 0),
           Line("local_obj_New", TypeNameWithNamespace(parser, field), <<>>, <<>>,
                <<"N","e","w">>, <<>>, 0, 0),
           Line("obj_Init", <<>>, <<>>, <<>>, <<"I","n","i","t">>, << <<"x">> >>, 0, 0),
           Line("return", <<>>, <<>>, <<>>, <<>>, << <<"o","b","j">> >>, 0, 0),
           Op("end_if"),
           Op("endfunc") >>

\* "x = x + ((j-1) * <size>)", "x = self.view:Indirect(x)" unless fixed
GetMemberOfVectorOfStruct(parser, struct_def, field) ==
  LET vectortype == VectorType(field.type)
  IN << Method(struct_def, FieldCamel(field), << <<"j">> >>) >>
     \o OffsetPrefix(field)
     \o << Line("local_x", <<>>, <<>>, <<>>, <<"V","e","c","t","o","r">>,
                << <<"o">> >>, 0, 0),
           Line("x_add_index", <<>>, <<>>, <<>>, <<>>, <<>>,
                InlineSize(parser.structs, vectortype), 0) >>
     \o (IF ~ parser.structs[vectortype.struct_def].fixed
           THEN << Line("x_Indirect", <<>>, <<>>, <<>>,
                        <<"I","n","d","i","r","e","c","t">>, << <<"x">> >>, 0, 0) >>
           ELSE <<>>)
     \o << Line("local_obj_New", TypeNameWithNamespace(parser, field), <<>>, <<>>,
                <<"N","e","w">>, <<>>, 0, 0),
           Line("obj_Init", <<>>, <<>>, <<>>, <<"I","n","i","t">>, << <<"x">> >>, 0, 0),
           Line("return", <<>>, <<>>, <<>>, <<>>, << <<"o","b","j">> >>, 0, 0),
           Op("end_if"),
           Op("endfunc") >>

\* "return <getter> a + ((j-1) * <size>))", then "return ''" or "return 0"
GetMemberOfVectorOfNonStruct(parser, struct_def, field) ==
  LET vectortype == VectorType(field.type)
  IN << Method(struct_def, FieldCamel(field), << <<"j">> >>) >>
     \o OffsetPrefix(field)
     \o << Line("local_a", <<>>, <<>>, <<>>, <<"V","e","c","t","o","r">>,
                << <<"o">> >>, 0, 0),
           Line("return_call_index", <<>>, <<>>, <<>>,
                GenGetter(parser.structs, field.type), << <<"a">> >>,
                InlineSize(parser.structs, vectortype), 0),
           Op("end_if"),
           Line("return", <<>>, <<>>, <<>>, <<>>,
                << IF vectortype.base_type = "STRING" THEN <<"'","'">>
                   ELSE <<"0">> >>, 0, 0),
           Op("endfunc") >>

\* the two-axis dispatch of GenStructAccessor (doc comments are empty)
GenStructAccessor(parser, struct_def, field) ==
  LET bt == field.type.base_type
  IN (IF IsScalar(bt)
        THEN IF struct_def.fixed
               THEN GetScalarFieldOfStruct(parser.structs, struct_def, field)
               ELSE GetScalarFieldOfTable(parser.structs, struct_def, field)
        ELSE CASE bt = "STRUCT" ->
                    IF struct_def.fixed THEN GetStructFieldOfStruct(struct_def, field)
                    ELSE GetStructFieldOfTable(parser, struct_def, field)
               [] bt = "STRING" -> GetStringField(parser.structs, struct_def, field)
               [] bt = "VECTOR" ->
                    IF VectorType(field.type).base_type = "STRUCT"
                      THEN GetMemberOfVectorOfStruct(parser, struct_def, field)
                      ELSE GetMemberOfVectorOfNonStruct(parser, struct_def, field)
               [] bt = "UNION" -> GetUnionField(parser.structs, struct_def, field)
               [] OTHER -> << Op("FLATBUFFERS_ASSERT") >>)
     \o (IF bt = "VECTOR" THEN GetVectorLen(struct_def, field) ELSE <<>>)

(***************************************************************************)
(* Builders of a fixed struct: the Create function.                        *)
(***************************************************************************)
\* a plausible slip: the prefix of a nested struct forgets the enclosing one
ArgsPrefixInnermost(nameprefix, field) == EscapeKeyword(field.name) \o <<"_">>

\* "nameprefix + (NormalizedName(field) + "_")"
ArgsPrefix(nameprefix, field) == nameprefix \o EscapeKeyword(field.name) \o <<"_">>

RECURSIVE StructBuilderArgsFrom(_, _, _, _)
\* the loop of StructBuilderArgs from field i on: the parameter names
StructBuilderArgsFrom(structs, struct_def, nameprefix, i) ==
  IF i > Len(struct_def.fields) THEN <<>>
  ELSE LET field == struct_def.fields[i]
       IN (IF IsStruct(structs, field.type)
             THEN StructBuilderArgsFrom(structs, structs[field.type.struct_def],
                                        ArgsPrefix(nameprefix, field), 1)
             ELSE << nameprefix \o MakeCamel(EscapeKeyword(field.name), FALSE) >>)
          \o StructBuilderArgsFrom(structs, struct_def, nameprefix, i + 1)

StructBuilderArgs(structs, struct_def, nameprefix) ==
  StructBuilderArgsFrom(structs, struct_def, nameprefix, 1)

\* a plausible slip: every field gets a Pad statement
FieldPadAlways(field, here) ==
  << At(Line("Pad", <<>>, <<>>, <<>>, <<"P","a","d">>, <<>>, field.padding, 0), here) >>

\* "if (field.padding) builder:Pad(<padding>)"
FieldPad(field, here) ==
  IF field.padding # 0
    THEN << At(Line("Pad", <<>>, <<>>, <<>>, <<"P","a","d">>, <<>>,
                    field.padding, 0), here) >>
    ELSE <<>>

RECURSIVE StructBuilderBodyFrom(_, _, _, _, _)
\* the loop of StructBuilderBody from field i down to the first
StructBuilderBodyFrom(structs, struct_def, nameprefix, path, i) ==
  IF i < 1 THEN <<>>
  ELSE LET field == struct_def.fields[i]
           here == Append(path, i)
       IN FieldPad(field, here)
          \o (IF IsStruct(structs, field.type)
                THEN LET inner == structs[field.type.struct_def]
                     IN << At(Line("Prep", <<>>, <<>>, <<>>, <<"P","r","e","p">>, <<>>,
                                   inner.minalign, inner.bytesize), here) >>
                        \o StructBuilderBodyFrom(structs, inner,
                             nameprefix \o EscapeKeyword(field.name) \o <<"_">>,
                             here, Len(inner.fields))
                ELSE << At(Line("Prepend", <<>>, <<>>, <<>>,
                                <<"P","r","e","p","e","n","d">>
                                  \o GenMethod(structs, field),
                                << nameprefix
                                   \o MakeCamel(EscapeKeyword(field.name), FALSE) >>,
                                0, 0), here) >>)
          \o StructBuilderBodyFrom(structs, struct_def, nameprefix, path, i - 1)

\* a plausible slip: the statements follow the declared order of the fields
StructBuilderBodyDeclaredOrder(structs, struct_def, nameprefix) ==
  LET body == StructBuilderBodyFrom(structs, struct_def, nameprefix, <<>>,
                                    Len(struct_def.fields))
  IN << Line("Prep", <<>>, <<>>, <<>>, <<"P","r","e","p">>, <<>>,
             struct_def.minalign, struct_def.bytesize) >>
     \o [k \in 1..Len(body) |-> body[Len(body) + 1 - k]]

\* "builder:Prep(<minalign>, <bytesize>)", then the fields last to first
StructBuilderBody(structs, struct_def, nameprefix) ==
  << Line("Prep", <<>>, <<>>, <<>>, <<"P","r","e","p">>, <<>>,
          struct_def.minalign, struct_def.bytesize) >>
  \o StructBuilderBodyFrom(structs, struct_def, nameprefix, <<>>,
                           Len(struct_def.fields))

\* BeginBuilderArgs, StructBuilderArgs, EndBuilderArgs, the body, EndBuilderBody
GenStructBuilder(structs, struct_def) ==
  << Function(struct_def, <<"C","r","e","a","t","e">> \o NormalizedName(struct_def),
              << <<"b","u","i","l","d","e","r">> >>
              \o StructBuilderArgs(structs, struct_def, <<>>)) >>
  \o StructBuilderBody(structs, struct_def, <<>>)
  \o << Line("return_call", <<>>, <<>>, <<>>, <<"O","f","f","s","e","t">>, <<>>, 0, 0),
        Op("endfunc") >>

(***************************************************************************)
(* Builders of a table: Start, Add<Field>, Start<Field>Vector, End.        *)
(***************************************************************************)
\* a plausible slip: the capacity counts only the fields still in use
StartCapacityLive(struct_def) ==
  Cardinality({i \in 1..Len(struct_def.fields) : ~ struct_def.fields[i].deprecated})

\* struct_def.fields.vec.size()
StartCapacity(struct_def) == Len(struct_def.fields)

\* "function <T>.Start(builder) builder:StartObject(<n>) end"
GetStartOfTable(struct_def) ==
  << Line("StartObject", NormalizedName(struct_def), <<"S","t","a","r","t">>,
          << <<"b","u","i","l","d","e","r">> >>,
          <<"S","t","a","r","t","O","b","j","e","c","t">>, <<>>,
          StartCapacity(struct_def), 0) >>

\* "function <T>.Add<F>(builder, <f>) builder:Prepend<M>Slot(<slot>, <f>, <default>) end"
BuildFieldOfTable(structs, struct_def, field, offset) ==
  << Line("PrependSlot", NormalizedName(struct_def),
          <<"A","d","d">> \o FieldCamel(field),
          << <<"b","u","i","l","d","e","r">>,
             MakeCamel(EscapeKeyword(field.name), FALSE) >>,
          <<"P","r","e","p","e","n","d">> \o GenMethod(structs, field)
            \o <<"S","l","o","t">>,
          << MakeCamel(EscapeKeyword(field.name), FALSE), field.constant >>,
          offset, 0) >>

\* "function <T>.Start<F>Vector(builder, numElems) return builder:StartVector(..) end"
BuildVectorOfTable(structs, struct_def, field) ==
  LET vector_type == VectorType(field.type)
  IN << Line("StartVector", NormalizedName(struct_def),
             <<"S","t","a","r","t">> \o FieldCamel(field)
               \o <<"V","e","c","t","o","r">>,
             << <<"b","u","i","l","d","e","r">>, <<"n","u","m","E","l","e","m","s">> >>,
             <<"S","t","a","r","t","V","e","c","t","o","r">>, <<>>,
             InlineSize(structs, vector_type),
             InlineAlignment(structs, vector_type)) >>

\* "function <T>.End(builder) return builder:EndObject() end"
GetEndOffsetOnTable(struct_def) ==
  << Line("EndObject", NormalizedName(struct_def), <<"E","n","d">>,
          << <<"b","u","i","l","d","e","r">> >>,
          <<"E","n","d","O","b","j","e","c","t">>, <<>>, 0, 0) >>

\* a plausible slip: the slot counts only the fields emitted before
SlotOfLive(struct_def, i) ==
  Cardinality({j \in 1..(i - 1) : ~ struct_def.fields[j].deprecated})

\* "it - struct_def.fields.vec.begin()": the zero-based position of field i
SlotOf(struct_def, i) == i - 1

\* a plausible slip: deprecated fields get builder functions too
SkippedNever(field) == FALSE

\* "if (field.deprecated) continue;"
Skipped(field) == field.deprecated

RECURSIVE GenTableBuildersFrom(_, _, _)
\* the loop of GenTableBuilders from field i on
GenTableBuildersFrom(structs, struct_def, i) ==
  IF i > Len(struct_def.fields) THEN <<>>
  ELSE LET field == struct_def.fields[i]
       IN (IF Skipped(field) THEN <<>>
           ELSE BuildFieldOfTable(structs, struct_def, field, SlotOf(struct_def, i))
                \o (IF field.type.base_type = "VECTOR"
                      THEN BuildVectorOfTable(structs, struct_def, field)
                      ELSE <<>>))
          \o GenTableBuildersFrom(structs, struct_def, i + 1)

GenTableBuilders(structs, struct_def) ==
  GetStartOfTable(struct_def)
  \o GenTableBuildersFrom(structs, struct_def, 1)
  \o GetEndOffsetOnTable(struct_def)

(***************************************************************************)
(* The object API: UnPack, UnPackTo and Pack of a struct or table.  Here   *)
(* the code names a field by MakeCamel(field.name), without escaping, and  *)
(* its local variables by "_" + field.name.                                *)
(***************************************************************************)
\* BaseGenerator::WrapInNameSpace with the empty separator the constructor passes
RECURSIVE Concat(_)
Concat(components) ==
  IF components = <<>> THEN <<>> ELSE Head(components) \o Concat(Tail(components))

WrapInNameSpace(def) == Concat(def.ns) \o def.name

\* "o.<Field>"
MirrorField(camel_name) == <<"o",".">> \o camel_name

\* "_<field.name>"
OffsetVar(field) == <<"_">> \o field.name

GenUnionUnPack_ObjectAPI(enum_def, camel_name, is_vector) ==
  LET varialbe_name == IF is_vector THEN <<"_","o","_">> \o camel_name
                       ELSE <<"_","o",".">> \o camel_name
      suffix == IF is_vector THEN <<"(","_","j",")">> ELSE <<"(",")">>
      type_suffix == IF is_vector THEN <<"(","_","j",")">> ELSE <<>>
  IN << Line(IF is_vector THEN "var_Union" ELSE "assign_Union", enum_def.name,
             varialbe_name, <<>>, <<"U","n","i","o","n">>, <<>>, 0, 0),
        Line("assign_Type", <<>>, varialbe_name \o <<".","T","y","p","e">>, <<>>,
             camel_name \o <<"T","y","p","e">> \o type_suffix, <<>>, 0, 0),
        Line("local_t", enum_def.name, <<"t">>, <<>>,
             <<"_","_","d","a","t","a","T","y","p","e","T","o","C","l","a","s","s">>,
             << MirrorField(camel_name) \o <<".","T","y","p","e">> >>, 0, 0),
        Op("if_t"),
        Line("local_d", <<>>, <<"d">>, <<>>, camel_name \o suffix, <<>>, 0, 0),
        Op("if_d"),
        Op("if_t_string"),
        Line("assign_Value", <<>>, varialbe_name \o <<".","V","a","l","u","e">>, <<>>,
             <<>>, << <<"d">> >>, 0, 0),
        Op("else"),
        Op("local_v_New"),
        Op("v_Init"),
        Line("assign_Value", <<>>, varialbe_name \o <<".","V","a","l","u","e">>, <<>>,
             <<"U","n","P","a","c","k">>, << <<"v">> >>, 0, 0),
        Op("end"), Op("end"), Op("end") >>
     \o (IF is_vector
           THEN << Line("assign_elem", <<>>,
                        <<"_","o",".">> \o camel_name \o <<"[","_","j","]">>, <<>>,
                        <<>>, << varialbe_name >>, 0, 0) >>
           ELSE <<>>)

\* the lines UnPackTo emits for one field
UnPackToField(parser, struct_def, field) ==
  LET camel_name == MakeCamel(field.name, TRUE)
      bt == field.type.base_type
      target == MirrorField(camel_name)
  IN CASE bt = "STRUCT" ->
            << Line(IF struct_def.fixed /\ parser.structs[field.type.struct_def].fixed
                      THEN "assign_UnPack" ELSE "assign_UnPack_or_nil",
                    <<>>, target, <<>>, camel_name, <<>>, 0, 0) >>
       [] bt = "VECTOR" ->
            << Line("assign_length", <<>>, <<"l","e","n","g","t","h">>, <<>>,
                    camel_name \o <<"L","e","n","g","t","h">>, <<>>, 0, 0) >>
            \o (IF field.type.element = "UNION"
                  THEN << Line("assign_table", <<>>, target, <<>>, <<>>, <<>>, 0, 0),
                          Op("for_j") >>
                       \o GenUnionUnPack_ObjectAPI(parser.enums[field.type.enum_def],
                                                   camel_name, TRUE)
                       \o << Op("end"), Op("blank") >>
                ELSE IF field.type.element # "UTYPE"
                  THEN << Line("assign_table", <<>>, target, <<>>, <<>>, <<>>, 0, 0),
                          Op("for__j"),
                          Line("local_item", <<>>, <<"i","t","e","m">>, <<>>,
                               camel_name \o <<"(","_","j",")">>, <<>>, 0, 0),
                          Line(IF field.type.struct_def # 0
                                 THEN "assign_item_UnPack_or_nil" ELSE "assign_item",
                               <<>>, target \o <<"[","_","j","]">>, <<>>, <<>>,
                               << <<"i","t","e","m">> >>, 0, 0),
                          Op("end"), Op("blank") >>
                ELSE <<>>)
       [] bt = "UTYPE" -> <<>>
       [] bt = "UNION" ->
            GenUnionUnPack_ObjectAPI(parser.enums[field.type.enum_def], camel_name,
                                     FALSE)
       [] OTHER ->
            << Line("assign_accessor", <<>>, target, <<>>, camel_name, <<>>, 0, 0) >>

\* "<T>.Start<field.name>Vector(builder, __<field.name>_length)"
PackStartVector(struct_def, field) ==
  Line("pack_StartVector", NormalizedName(struct_def), <<>>, <<>>,
       <<"S","t","a","r","t">> \o field.name \o <<"V","e","c","t","o","r">>,
       << <<"b","u","i","l","d","e","r">>,
          <<"_","_">> \o field.name \o <<"_","l","e","n","g","t","h">> >>, 0, 0)

\* the lines Pack emits for a vector field before the table is started
PackVector(parser, struct_def, field) ==
  LET camel_name == MakeCamel(field.name, TRUE)
      el == field.type.element
      array == <<"_","_">> \o field.name \o <<"_","a","r","r","a","y">>
  IN << Line("pack_local_zero", <<>>, OffsetVar(field), <<>>, <<>>, << <<"0">> >>,
             0, 0),
        Line("pack_if_present", <<>>, <<>>, <<>>, <<>>, << MirrorField(camel_name) >>,
             0, 0),
        Line("pack_local_length", <<>>,
             <<"_","_">> \o field.name \o <<"_","l","e","n","g","t","h">>, <<>>, <<>>,
             << MirrorField(camel_name) >>, 0, 0) >>
     \o (IF IsScalar(el) \/ IsStruct(parser.structs, field.type)
           THEN << PackStartVector(struct_def, field),
                   Op("pack_for_reverse"),
                   IF IsScalar(el)
                     THEN Line("pack_prepend_elem", <<>>, <<>>, <<>>,
                               <<"P","r","e","p","e","n","d">>
                                 \o MakeCamel(GenTypeBasic(el), TRUE),
                               << MirrorField(camel_name) \o <<"[","_","j","]">> >>,
                               0, 0)
                     ELSE Line("pack_prepend_struct",
                               MakeCamel(GenTypeGet(parser.structs, field.type), TRUE),
                               <<>>, <<>>, <<"P","r","e","p","e","n","d","S","t","r","u","c","t">>,
                               << MirrorField(camel_name) \o <<"[","_","j","]">> >>,
                               0, 0),
                   Op("pack_end") >>
           ELSE << Line("pack_local_array", <<>>, array, <<>>, <<>>, <<>>, 0, 0),
                   Line("pack_for_ipairs", <<>>, <<>>, <<>>, <<>>,
                        << MirrorField(camel_name) >>, 0, 0),
                   CASE el = "STRING" ->
                          Line("pack_array_elem", <<>>, array \o <<"[","i","]">>, <<>>,
                               <<"C","r","e","a","t","e","S","t","r","i","n","g">>,
                               << <<"v">> >>, 0, 0)
                     [] el = "STRUCT" ->
                          Line("pack_array_elem", GenTypeGet(parser.structs, field.type),
                               array \o <<"[","i","]">>, <<>>, <<"P","a","c","k">>,
                               << <<"b","u","i","l","d","e","r">>, <<"v">> >>, 0, 0)
                     [] OTHER ->
                          Line("pack_not_supported", <<>>, array \o <<"[","i","]">>,
                               <<>>, <<>>, <<>>, 0, 0),
                   Op("pack_end"),
                   PackStartVector(struct_def, field),
                   Op("pack_for_reverse"),
                   Line("pack_prepend_offset", <<>>, <<>>, <<>>,
                        <<"P","r","e","p","e","n","d","U","O","f","f","s","e","t","T",
                          "R","e","l","a","t","i","v","e">>,
                        << array \o <<"[","_","j","]">> >>, 0, 0),
                   Op("pack_end") >>)
     \o << Line("pack_EndVector", <<>>, OffsetVar(field), <<>>,
                <<"E","n","d","V","e","c","t","o","r">>,
                << <<"_","_">> \o field.name \o <<"_","l","e","n","g","t","h">> >>,
                0, 0),
           Op("pack_end_if"), Op("blank") >>

\* a plausible slip: no child is packed before the container is started
PackPrepareNothing(parser, struct_def, field) == <<>>

\* the first loop of Pack: the children that need an offset of their own
PackPrepareField(parser, struct_def, field) ==
  LET camel_name == MakeCamel(field.name, TRUE)
      bt == field.type.base_type
  IN CASE bt = "STRUCT" ->
            IF ~ parser.structs[field.type.struct_def].fixed
              THEN << Line("pack_local_child",
                           MakeCamel(GenTypeGet(parser.structs, field.type), TRUE),
                           OffsetVar(field), <<>>, <<"P","a","c","k">>,
                           << <<"b","u","i","l","d","e","r">>,
                              MirrorField(camel_name) >>, 0, 0) >>
              ELSE <<>>
       [] bt = "STRING" ->
            << Line("pack_local_string", <<>>, OffsetVar(field), <<>>,
                    <<"C","r","e","a","t","e","S","t","r","i","n","g">>,
                    << MirrorField(camel_name) >>, 0, 0) >>
       [] bt = "VECTOR" -> PackVector(parser, struct_def, field)
       [] bt = "UNION" ->
            << Line("pack_local_union_type",
                    WrapInNameSpace(parser.enums[field.type.enum_def]),
                    OffsetVar(field) \o <<"_","t","y","p","e">>, <<>>, <<>>,
                    << MirrorField(camel_name) >>, 0, 0),
               Line("pack_local_union",
                    WrapInNameSpace(parser.enums[field.type.enum_def])
                      \o <<".","U","n","i","o","n">>,
                    OffsetVar(field), <<>>, <<"P","a","c","k">>,
                    << <<"b","u","i","l","d","e","r">>, MirrorField(camel_name) >>,
                    0, 0) >>
       [] OTHER -> <<>>

\* "<Type>.Pack(builder, o.<Field>)"
PackInline(parser, field) ==
  GenTypeGet(parser.structs, field.type)
  \o <<".","P","a","c","k","(","b","u","i","l","d","e","r",","," ">>
  \o MirrorField(MakeCamel(field.name, TRUE)) \o <<")">>

\* what Pack of a fixed struct passes to Create for one field, after ", "
PackCreateArg(parser, field) ==
  LET bt == field.type.base_type
  IN CASE bt = "STRUCT" ->
            IF parser.structs[field.type.struct_def].fixed
              THEN PackInline(parser, field) ELSE OffsetVar(field)
       [] bt \in {"STRING", "ARRAY", "VECTOR"} -> OffsetVar(field)
       [] bt \in {"UTYPE", "UNION"} -> <<>>
       [] OTHER -> MirrorField(MakeCamel(field.name, TRUE))

\* "<T>.Add<Field>(builder, <value>)"
PackAdd(struct_def, name, value) ==
  Line("pack_Add", NormalizedName(struct_def), <<>>, <<>>, <<"A","d","d">> \o name,
       << <<"b","u","i","l","d","e","r">>, value >>, 0, 0)

\* the lines Pack of a table emits for one field between Start and End
PackAddField(parser, struct_def, field) ==
  LET camel_name == MakeCamel(field.name, TRUE)
      bt == field.type.base_type
  IN CASE bt = "STRUCT" ->
            << PackAdd(struct_def, camel_name,
                       IF parser.structs[field.type.struct_def].fixed
                         THEN PackInline(parser, field) ELSE OffsetVar(field)) >>
       [] bt \in {"STRING", "ARRAY", "VECTOR"} ->
            << PackAdd(struct_def, camel_name, OffsetVar(field)) >>
       [] bt = "UTYPE" -> <<>>
       [] bt = "UNION" ->
            << PackAdd(struct_def, camel_name \o <<"T","y","p","e">>,
                       OffsetVar(field) \o <<"_","t","y","p","e">>),
               PackAdd(struct_def, camel_name, OffsetVar(field)) >>
       [] OTHER ->
            << PackAdd(struct_def, camel_name, MirrorField(camel_name)) >>

\* the non-deprecated fields, in declared order
LiveFields(struct_def) ==
  SelectSeq(struct_def.fields, LAMBDA f : ~ f.deprecated)

RECURSIVE Flatten(_)
\* the code buffer after appending the line sequences of ss in order
Flatten(ss) ==
  IF ss = <<>> THEN <<>> ELSE Head(ss) \o Flatten(Tail(ss))

GenUnPackPack_ObjectAPI(parser, struct_def) ==
  LET live == LiveFields(struct_def)
      builder_o == << <<"b","u","i","l","d","e","r">>, <<"o">> >>
  IN << Op("blank"), Op("comment_object_api"),
        Method(struct_def, <<"U","n","P","a","c","k">>, <<>>),
        Line("local_o_T", NormalizedName(struct_def), <<"o">>, <<>>, <<"T">>, <<>>,
             0, 0),
        Op("self_UnPackTo"),
        Op("return_o"),
        Op("endfunc"), Op("blank"),
        Method(struct_def, <<"U","n","P","a","c","k","T","o">>, << <<"o">> >>),
        Op("local_length") >>
     \o Flatten([i \in 1..Len(live) |-> UnPackToField(parser, struct_def, live[i])])
     \o << Op("endfunc"), Op("blank"),
           Method(struct_def, <<"P","a","c","k">>, builder_o) >>
     \o Flatten([i \in 1..Len(live) |->
                   PackPrepareField(parser, struct_def, live[i])])
     \o (IF struct_def.fixed
           THEN << Line("pack_return_Create", NormalizedName(struct_def), <<>>, <<>>,
                        <<"C","r","e","a","t","e">> \o NormalizedName(struct_def),
                        << <<"b","u","i","l","d","e","r">> >>
                        \o [i \in 1..Len(live) |-> PackCreateArg(parser, live[i])],
                        0, 0) >>
           ELSE << Line("pack_Start", NormalizedName(struct_def), <<>>, <<>>,
                        <<"S","t","a","r","t">>, << <<"b","u","i","l","d","e","r">> >>,
                        0, 0) >>
                \o Flatten([i \in 1..Len(live) |->
                             PackAddField(parser, struct_def, live[i])])
                \o << Line("pack_return_End", NormalizedName(struct_def), <<>>, <<>>,
                           <<"E","n","d">>, << <<"b","u","i","l","d","e","r">> >>,
                           0, 0) >>)
     \o << Op("endfunc"), Op("blank") >>

\* GenDefaultValue(field): the mirror's initial value of a scalar field
GenDefaultValue(parser, field) ==
  IF field.type.enum_def # 0 /\ field.type.base_type # "UNION"
    THEN LET enum_def == parser.enums[field.type.enum_def]
             found == {i \in 1..Len(enum_def.vals) :
                         enum_def.vals[i].value = field.constant}
         IN IF found # {}
              THEN WrapInNameSpace(enum_def) \o <<".">>
                   \o enum_def.vals[CHOOSE i \in found : TRUE].name
              ELSE field.constant
    ELSE IF field.type.base_type = "BOOL"
      THEN IF field.constant = <<"0">> THEN <<"f","a","l","s","e">>
           ELSE <<"t","r","u","e">>
      ELSE field.constant

\* a plausible slip: the constructor builds the mirror of every field's type
ObjectDeclFieldEager(parser, opts, field) ==
  << Line("ctor_construct", TypeNameWithNamespace(parser, field),
          <<"t","h","i","s",".">> \o MakeCamel(field.name, TRUE), <<>>, <<"T">>,
          << <<>> >>, 0, 0) >>

\* the line of the mirror constructor for one field: "this.<Field> = <value>"
ObjectDeclField(parser, opts, field) ==
  LET target == <<"t","h","i","s",".">> \o MakeCamel(field.name, TRUE)
      bt == field.type.base_type
      Assign(op, cls, call, value) ==
        << Line(op, cls, target, <<>>, call, << value >>, 0, 0) >>
  IN CASE bt = "STRUCT" -> Assign("ctor_nil", <<>>, <<>>, <<"n","i","l">>)
       [] bt = "STRING" -> Assign("ctor_literal", <<>>, <<>>, <<"\"","\"">>)
       [] bt \in {"ARRAY", "VECTOR"} ->
            IF opts.set_empty_vectors_to_null
              THEN Assign("ctor_nil", <<>>, <<>>, <<"n","i","l">>)
              ELSE Assign("ctor_literal", <<>>, <<>>, <<"{","}">>)
       [] bt = "UTYPE" -> <<>>
       [] bt = "UNION" ->
            Assign("ctor_construct", TypeNameWithNamespace(parser, field),
                   <<"U","n","i","o","n">>, <<>>)
       [] OTHER -> Assign("ctor_literal", <<>>, <<>>, GenDefaultValue(parser, field))

\* "<T>.T = {", "__ctor__ = function (this)", the fields, "end", "}"
GenObjectDecl_ObjectAPI(parser, opts, struct_def) ==
  LET live == LiveFields(struct_def)
  IN << Line("mirror_begin", NormalizedName(struct_def), <<"T">>, <<>>, <<>>, <<>>,
             0, 0),
        Op("ctor_begin") >>
     \o Flatten([i \in 1..Len(live) |-> ObjectDeclField(parser, opts, live[i])])
     \o << Op("ctor_end"), Op("mirror_end") >>

\* GenStruct: nothing for a definition already generated
GenStruct(parser, opts, struct_def) ==
  IF struct_def.generated THEN <<>>
  ELSE LET live == LiveFields(struct_def)
       IN BeginClass(struct_def)
          \o GenerateNewObjectPrototype(struct_def)
          \o (IF ~ struct_def.fixed THEN NewRootTypeFromBuffer(struct_def) ELSE <<>>)
          \o InitializeExisting(struct_def)
          \o Flatten([i \in 1..Len(live) |->
                        GenStructAccessor(parser, struct_def, live[i])])
          \o (IF struct_def.fixed THEN GenStructBuilder(parser.structs, struct_def)
              ELSE GenTableBuilders(parser.structs, struct_def))
          \o (IF opts.generate_object_based_api
                THEN GenUnPackPack_ObjectAPI(parser, struct_def)
                     \o GenObjectDecl_ObjectAPI(parser, opts, struct_def)
                ELSE <<>>)

(***************************************************************************)
(* Enums and unions.                                                       *)
(***************************************************************************)
\* "<Name> = <value>,"
EnumMember(ev) ==
  Line("enum_member", <<>>, EscapeKeyword(ev.name), <<>>, <<>>, << ev.value >>, 0, 0)

\* a plausible slip: the value 0 gets a line of the dispatch table too
DataTypeToClassEntryAll(parser, ev) ==
  << Line("dispatch_entry", <<>>, <<>>, <<>>, <<"r","e","q","u","i","r","e">>,
          << ev.value, GetNamespace(parser, ev.union_type) >>, 0, 0) >>

\* the line of the dispatch table for one value, none for the value 0
DataTypeToClassEntry(parser, ev) ==
  IF ev.value = <<"0">> THEN <<>>
  ELSE IF ev.union_type.base_type = "STRING"
    THEN << Line("dispatch_entry", <<>>, <<>>, <<>>, <<>>,
                 << ev.value, <<"s","t","r","i","n","g">> >>, 0, 0) >>
    ELSE << Line("dispatch_entry", <<>>, <<>>, <<>>, <<"r","e","q","u","i","r","e">>,
                 << ev.value, GetNamespace(parser, ev.union_type) >>, 0, 0) >>

GenEnumDef_ObjectAPI(parser, enum_def) ==
  IF ~ enum_def.is_union THEN <<>>
  ELSE LET enum_name == MakeCamel(enum_def.name, TRUE)
       IN << Op("local_dataTypeToClass") >>
          \o Flatten([i \in 1..Len(enum_def.vals) |->
                        DataTypeToClassEntry(parser, enum_def.vals[i])])
          \o << Line("assign_dispatch", enum_name,
                     <<"_","_","d","a","t","a","T","y","p","e","T","o","C","l","a","s","s">>,
                     <<>>, <<>>, <<>>, 0, 0),
                Op("blank"),
                Line("union_begin", enum_name, <<"U","n","i","o","n">>, <<>>, <<>>, <<>>,
                     0, 0),
                Line("union_ctor_begin", <<>>, <<"_","_","c","t","o","r">>,
                     << <<"t","h","i","s">> >>, <<>>, <<>>, 0, 0),
                Line("ctor_literal", <<>>, <<"t","h","i","s",".","T","y","p","e">>, <<>>,
                     <<>>, << <<"0">> >>, 0, 0),
                Line("ctor_nil", <<>>, <<"t","h","i","s",".","V","a","l","u","e">>, <<>>,
                     <<>>, << <<"n","i","l">> >>, 0, 0),
                Op("ctor_end"), Op("union_end") >>

\* GenEnum: nothing for a definition already generated
GenEnum(parser, opts, enum_def) ==
  IF enum_def.generated THEN <<>>
  ELSE << Line("enum_begin", NormalizedName(enum_def), <<>>, <<>>, <<>>, <<>>, 0, 0) >>
       \o [i \in 1..Len(enum_def.vals) |-> EnumMember(enum_def.vals[i])]
       \o << Op("enum_end") >>
       \o (IF opts.generate_object_based_api
             THEN GenEnumDef_ObjectAPI(parser, enum_def) ELSE <<>>)

(***************************************************************************)
(* SaveType: the artifact of one definition.                               *)
(***************************************************************************)
\* LastNamespacePart
LastNamespacePart(def) == IF def.ns = <<>> THEN <<>> ELSE def.ns[Len(def.ns)]

\* BeginFile, the class code, and "return <Name> -- return the module"
FileText(def, classcode, needs_imports) ==
  << Line("comment_generated", <<>>, <<>>, <<>>, <<>>, <<>>, 0, 0),
     Line("comment_namespace", LastNamespacePart(def), <<>>, <<>>, <<>>, <<>>, 0, 0) >>
  \o (IF needs_imports THEN << Op("require_flatbuffers") >> ELSE <<>>)
  \o classcode
  \o << Op("blank"),
        Line("return_module", NormalizedName(def), <<>>, <<>>, <<>>, <<>>, 0, 0) >>

\* the file SaveType writes: NamespaceDir + NormalizedName + ".lua"
Artifact(def, classcode, needs_imports) ==
  [dir |-> def.ns, name |-> NormalizedName(def) \o <<".","l","u","a">>,
   code |-> FileText(def, classcode, needs_imports)]

(***************************************************************************)
(* The schemas the model runs the generator on.  Every schema is one the   *)
(* parser can produce: a fixed struct holds scalars and fixed structs      *)
(* defined before it, a union field follows its type field, offsets and    *)
(* paddings are those of the layout resolver.  Array fields are left out:  *)
(* GenStructAccessor has no case for them.                                 *)
(***************************************************************************)
\* the namespace every definition of the schemas is declared in
SchemaNamespace == << <<"G">> >>

NoType == Type("NONE", "NONE", 0, 0)

\* struct Vec3 { x:float; y:float; z:float; }
Vec3(generated) ==
  MakeStructDef(<<>>, SchemaNamespace, <<"V","e","c","3">>, TRUE, generated,
    << [name |-> <<"x">>, type |-> Type("FLOAT", "NONE", 0, 0), constant |-> <<"0",".","0">>,
        deprecated |-> FALSE],
       [name |-> <<"y">>, type |-> Type("FLOAT", "NONE", 0, 0), constant |-> <<"0",".","0">>,
        deprecated |-> FALSE],
       [name |-> <<"z">>, type |-> Type("FLOAT", "NONE", 0, 0), constant |-> <<"0",".","0">>,
        deprecated |-> FALSE] >>)

\* enum Color : ubyte { Red = 0, Green = 1 }
Color ==
  [name |-> <<"C","o","l","o","r">>, ns |-> SchemaNamespace, is_union |-> FALSE,
   generated |-> FALSE,
   vals |-> << [name |-> <<"R","e","d">>, value |-> <<"0">>, union_type |-> NoType],
               [name |-> <<"G","r","e","e","n">>, value |-> <<"1">>, union_type |-> NoType] >>]

\* union Any { Monster, string }, with the value NONE = 0 the parser adds
AnyUnion ==
  [name |-> <<"A","n","y">>, ns |-> SchemaNamespace, is_union |-> TRUE,
   generated |-> FALSE,
   vals |-> << [name |-> <<"N","O","N","E">>, value |-> <<"0">>, union_type |-> NoType],
               [name |-> <<"M","o","n","s","t","e","r">>, value |-> <<"1">>,
                union_type |-> Type("STRUCT", "NONE", 2, 0)],
               [name |-> <<"s","t","r","i","n","g">>, value |-> <<"2">>,
                union_type |-> Type("STRING", "NONE", 0, 0)] >>]

\* the fields a table under test is drawn from; a union brings its type field
TableTemplates ==
  << << [name |-> <<"h","p">>, type |-> Type("INT", "NONE", 0, 0), constant |-> <<"1","0","0">>] >>,
     << [name |-> <<"i","s","_","o","k">>, type |-> Type("BOOL", "NONE", 0, 0), constant |-> <<"1">>] >>,
     << [name |-> <<"n","o","t">>, type |-> Type("BOOL", "NONE", 0, 0), constant |-> <<"0">>] >>,
     << [name |-> <<"n","a","m","e">>, type |-> Type("STRING", "NONE", 0, 0), constant |-> <<"0">>] >>,
     << [name |-> <<"p","o","s">>, type |-> Type("STRUCT", "NONE", 1, 0), constant |-> <<"0">>] >>,
     << [name |-> <<"f","r","i","e","n","d">>, type |-> Type("STRUCT", "NONE", 2, 0), constant |-> <<"0">>] >>,
     << [name |-> <<"i","n","v","e","n","t","o","r","y">>, type |-> Type("VECTOR", "UCHAR", 0, 0), constant |-> <<"0">>] >>,
     << [name |-> <<"n","a","m","e","s">>, type |-> Type("VECTOR", "STRING", 0, 0), constant |-> <<"0">>] >>,
     << [name |-> <<"p","a","t","h">>, type |-> Type("VECTOR", "STRUCT", 1, 0), constant |-> <<"0">>] >>,
     << [name |-> <<"k","i","d","s">>, type |-> Type("VECTOR", "STRUCT", 2, 0), constant |-> <<"0">>] >>,
     << [name |-> <<"t","e","s","t","_","t","y","p","e">>, type |-> Type("UTYPE", "NONE", 0, 1), constant |-> <<"0">>],
        [name |-> <<"t","e","s","t">>, type |-> Type("UNION", "NONE", 0, 1), constant |-> <<"0">>] >>,
     << [name |-> <<"m","a","n","y","_","t","y","p","e">>, type |-> Type("VECTOR", "UTYPE", 0, 1), constant |-> <<"0">>],
        [name |-> <<"m","a","n","y">>, type |-> Type("VECTOR", "UNION", 0, 1), constant |-> <<"0">>] >> >>

\* the fields a fixed struct under test is drawn from
StructTemplates ==
  << [name |-> <<"a">>, type |-> Type("SHORT", "NONE", 0, 0), constant |-> <<"0">>],
     [name |-> <<"b">>, type |-> Type("UCHAR", "NONE", 0, 0), constant |-> <<"0">>],
     [name |-> <<"s","t","a","r","t">>, type |-> Type("STRUCT", "NONE", 1, 0), constant |-> <<"0">>],
     [name |-> <<"e","n","d">>, type |-> Type("STRUCT", "NONE", 1, 0), constant |-> <<"0">>],
     [name |-> <<"m","y","_","l","e","n">>, type |-> Type("INT", "NONE", 0, 0), constant |-> <<"0">>],
     [name |-> <<"d">>, type |-> Type("DOUBLE", "NONE", 0, 0), constant |-> <<"0",".","0">>] >>

\* the fields of template t; the flag goes to its last field (the union itself)
TemplateFields(t, deprecated) ==
  [i \in 1..Len(t) |->
     [name |-> t[i].name, type |-> t[i].type, constant |-> t[i].constant,
      deprecated |-> (deprecated /\ i = Len(t))]]

RECURSIVE TableFields(_, _, _)
\* the templates of ks from template k on, in the order of TableTemplates
TableFields(ks, ds, k) ==
  IF k > Len(TableTemplates) THEN <<>>
  ELSE (IF k \in ks THEN TemplateFields(TableTemplates[k], k \in ds) ELSE <<>>)
       \o TableFields(ks, ds, k + 1)

\* table Monster with the templates ks, those of ds deprecated, beside Vec3
TableSchema(ks, ds) ==
  LET vec3 == Vec3(FALSE)
      monster == MakeStructDef(<< vec3 >>, SchemaNamespace,
                               <<"M","o","n","s","t","e","r">>, FALSE, FALSE,
                               TableFields(ks, ds, 1))
  IN [enums |-> << AnyUnion >>, structs |-> << vec3, monster >>]

\* struct Line with the templates order[1], order[2], ..; struct Box { tag; inner:Line; z }
StructSchema(order, generated) ==
  LET vec3 == Vec3(generated)
      line == MakeStructDef(<< vec3 >>, SchemaNamespace, <<"L","i","n","e">>, TRUE, FALSE,
                [i \in 1..Len(order) |->
                   [name |-> StructTemplates[order[i]].name,
                    type |-> StructTemplates[order[i]].type,
                    constant |-> StructTemplates[order[i]].constant,
                    deprecated |-> FALSE]])
      box == MakeStructDef(<< vec3, line >>, SchemaNamespace, <<"B","o","x">>, TRUE, FALSE,
               << [name |-> <<"t","a","g">>, type |-> Type("UCHAR", "NONE", 0, 0),
                   constant |-> <<"0">>, deprecated |-> FALSE],
                  [name |-> <<"i","n","n","e","r">>, type |-> Type("STRUCT", "NONE", 2, 0),
                   constant |-> <<"0">>, deprecated |-> FALSE],
                  [name |-> <<"z">>, type |-> Type("SHORT", "NONE", 0, 0),
                   constant |-> <<"0">>, deprecated |-> FALSE] >>)
  IN [enums |-> << Color >>, structs |-> << vec3, line, box >>]

\* enum Tone { end, _end }: a reserved word beside the identifier its
\* escaped form spells
Tone ==
  [name |-> <<"T","o","n","e">>, ns |-> SchemaNamespace, is_union |-> FALSE,
   generated |-> FALSE,
   vals |-> << [name |-> <<"e","n","d">>, value |-> <<"0">>, union_type |-> NoType],
               [name |-> <<"_","e","n","d">>, value |-> <<"1">>, union_type |-> NoType] >>]

EscapedPairSchema == [enums |-> << Tone >>, structs |-> << Vec3(FALSE) >>]

\* the sequences of 1..MaxFields distinct struct templates
StructOrders ==
  UNION { { f \in [1..k -> 1..Len(StructTemplates)] :
              \A i, j \in 1..k : i # j => f[i] # f[j] } : k \in 1..MaxFields }

Schemas ==
  UNION { { TableSchema(ks, ds) : ds \in SUBSET ks } :
            ks \in { x \in SUBSET (1..Len(TableTemplates)) :
                       Cardinality(x) \in 1..MaxFields } }
  \cup { StructSchema(order, generated) : order \in StructOrders, generated \in BOOLEAN }
  \cup { EscapedPairSchema }

\* IDLOptions: generate_object_based_api and set_empty_vectors_to_null
Options ==
  { [generate_object_based_api |-> FALSE, set_empty_vectors_to_null |-> FALSE],
    [generate_object_based_api |-> TRUE, set_empty_vectors_to_null |-> FALSE],
    [generate_object_based_api |-> TRUE, set_empty_vectors_to_null |-> TRUE] }

(***************************************************************************)
(* generate(): generateEnums() then generateStructs().  One step is one    *)
(* iteration of a loop: the code of a definition is generated and          *)
(* SaveType is called with it.  SaveFile is the file system's; it may      *)
(* fail.                                                                   *)
(***************************************************************************)
VARIABLES
  parser,   \* the schema: enums_ and structs_ in declaration order
  opts,     \* parser_.opts
  pc,       \* "enums", "structs" or "done"
  it,       \* the index of the next definition of the running loop
  files,    \* the files SaveFile has written, in order
  result    \* what generate() returned: "none" while it runs

vars == << parser, opts, pc, it, files, result >>

Init ==
  /\ parser \in Schemas
  /\ opts \in Options
  /\ pc = "enums"
  /\ it = 1
  /\ files = <<>>
  /\ result = "none"

\* a plausible slip: the loop ignores what SaveType returns and goes on
SaveTypeIgnored(def, classcode, needs_imports, saved) ==
  /\ files' = IF classcode # <<>> /\ saved
                THEN Append(files, Artifact(def, classcode, needs_imports))
                ELSE files
  /\ pc' = pc
  /\ it' = it + 1
  /\ result' = result

\* SaveType(def, classcode, needs_imports) when SaveFile answers saved
SaveType(def, classcode, needs_imports, saved) ==
  IF classcode = <<>> THEN /\ files' = files
                           /\ pc' = pc
                           /\ it' = it + 1
                           /\ result' = result
  ELSE IF saved THEN /\ files' = Append(files, Artifact(def, classcode, needs_imports))
                     /\ pc' = pc
                     /\ it' = it + 1
                     /\ result' = result
  ELSE /\ files' = files
       /\ pc' = "done"
       /\ it' = it
       /\ result' = "false"

\* one iteration of the loop of generateEnums
GenerateEnum ==
  /\ pc = "enums"
  /\ it <= Len(parser.enums)
  /\ LET enumcode == GenEnum(parser, opts, parser.enums[it])
     IN \E saved \in BOOLEAN : SaveType(parser.enums[it], enumcode, FALSE, saved)
  /\ UNCHANGED << parser, opts >>

\* generateEnums returns true: generateStructs starts
EnumsDone ==
  /\ pc = "enums"
  /\ it > Len(parser.enums)
  /\ pc' = "structs"
  /\ it' = 1
  /\ UNCHANGED << parser, opts, files, result >>

\* a plausible slip: declcode is declared outside the loop and keeps the code
\* of the definitions before
GenerateStructAccumulating ==
  /\ pc = "structs"
  /\ it <= Len(parser.structs)
  /\ LET declcode == (IF files = <<>> THEN <<>> ELSE files[Len(files)].code)
                      \o GenStruct(parser, opts, parser.structs[it])
     IN \E saved \in BOOLEAN : SaveType(parser.structs[it], declcode, TRUE, saved)
  /\ UNCHANGED << parser, opts >>

\* one iteration of the loop of generateStructs
GenerateStruct ==
  /\ pc = "structs"
  /\ it <= Len(parser.structs)
  /\ LET declcode == GenStruct(parser, opts, parser.structs[it])
     IN \E saved \in BOOLEAN : SaveType(parser.structs[it], declcode, TRUE, saved)
  /\ UNCHANGED << parser, opts >>

\* generateStructs returns true, and so does generate
StructsDone ==
  /\ pc = "structs"
  /\ it > Len(parser.structs)
  /\ pc' = "done"
  /\ result' = "true"
  /\ UNCHANGED << parser, opts, it, files >>

Next == GenerateEnum \/ EnumsDone \/ GenerateStruct \/ StructsDone

Spec == Init /\ [][Next]_vars

(***************************************************************************)
(* Reading the emitted text.  Right after an iteration of generateStructs  *)
(* that saved a file, the last file is the artifact of the definition      *)
(* before the loop index.                                                  *)
(***************************************************************************)
SavedStruct == pc = "structs" /\ it > 1 /\ ~ parser.structs[it - 1].generated

TheStruct == parser.structs[it - 1]

TheCode == files[Len(files)].code

SavedTable == SavedStruct /\ ~ TheStruct.fixed

SavedFixed == SavedStruct /\ TheStruct.fixed

\* the indexes of the lines of code with template op
LinesOf(code, op) == {i \in 1..Len(code) : code[i].op = op}

\* the lines of the function declared at line i, up to its "end"
BodyAt(code, i) ==
  LET ends == {j \in (i + 1)..Len(code) : code[j].op = "endfunc"}
      last == CHOOSE j \in ends : \A k \in ends : j <= k
  IN SubSeq(code, i + 1, last - 1)

LiveIndexes(struct_def) ==
  {i \in 1..Len(struct_def.fields) : ~ struct_def.fields[i].deprecated}

(***************************************************************************)
(* C1.  For every table, the capacity the emitted Start function passes to *)
(* StartObject is the number of fields the table declares, the deprecated  *)
(* ones counted.                                                           *)
(***************************************************************************)
C1_StartCapacityIsDeclaredFieldCount ==
  SavedTable =>
    /\ Cardinality(LinesOf(TheCode, "StartObject")) = 1
    /\ \A i \in LinesOf(TheCode, "StartObject") :
         /\ TheCode[i].fn = <<"S","t","a","r","t">>
         /\ TheCode[i].n = Len(TheStruct.fields)

\* a table with a deprecated field and a live one has been generated
C1_Witness ==
  /\ SavedTable
  /\ LiveIndexes(TheStruct) # {}
  /\ LiveIndexes(TheStruct) # 1..Len(TheStruct.fields)
  /\ \E i \in LinesOf(TheCode, "StartObject") : TheCode[i].n >= 2

(***************************************************************************)
(* C2.  For every non-deprecated field of a table, the slot its Add        *)
(* function writes is the field's zero-based position among all declared   *)
(* fields; deprecating any other field, or appending a field, leaves that  *)
(* slot as it is.                                                          *)
(***************************************************************************)
\* the slots the Add function of field writes in the builder code
AddSlots(code, field) ==
  {code[i].n : i \in {j \in LinesOf(code, "PrependSlot") :
                        code[j].fn = <<"A","d","d">> \o FieldCamel(field)}}

Deprecate(struct_def, j) == [struct_def EXCEPT !.fields[j].deprecated = TRUE]

AppendedField ==
  [name |-> <<"e","x","t","r","a">>, type |-> Type("INT", "NONE", 0, 0),
   constant |-> <<"0">>, deprecated |-> FALSE]

C2_AddSlotIsDeclaredPosition ==
  SavedTable =>
    \A i \in LiveIndexes(TheStruct) :
      LET field == TheStruct.fields[i]
      IN /\ AddSlots(TheCode, field) = {i - 1}
         /\ \A j \in 1..Len(TheStruct.fields) :
              j # i =>
                AddSlots(GenTableBuilders(parser.structs, Deprecate(TheStruct, j)),
                         field) = {i - 1}
         /\ AddSlots(GenTableBuilders(parser.structs,
                                      AddField(parser.structs, TheStruct,
                                               AppendedField)),
                     field) = {i - 1}

\* a live field follows a deprecated one and keeps its slot
C2_Witness ==
  /\ SavedTable
  /\ \E i \in LiveIndexes(TheStruct) :
       /\ i > 1
       /\ TheStruct.fields[i - 1].deprecated
       /\ AddSlots(TheCode, TheStruct.fields[i]) = {i - 1}

(***************************************************************************)
(* C3.  As stated: the generator checks that the count passed to Start     *)
(* equals the number of Add functions it emits, and generation fails when  *)
(* they differ; so generate() never returns true with a table whose Start  *)
(* count differs from its number of Add functions.                         *)
(***************************************************************************)
C3_StartCountCheckedAgainstAdds ==
  result = "true" =>
    \A k \in 1..Len(files) :
      \A i \in LinesOf(files[k].code, "StartObject") :
        files[k].code[i].n = Cardinality(LinesOf(files[k].code, "PrependSlot"))

(***************************************************************************)
(* C3, amended.  No such check is made: a table gets one Add function per  *)
(* non-deprecated field, and its Start count is the number of its Add      *)
(* functions plus the number of its deprecated fields; generate() returns  *)
(* true for tables where the two numbers differ.                           *)
(***************************************************************************)
C3_StartCountIsAddsPlusDeprecated ==
  SavedTable =>
    /\ Cardinality(LinesOf(TheCode, "PrependSlot"))
         = Cardinality(LiveIndexes(TheStruct))
    /\ \A i \in LinesOf(TheCode, "StartObject") :
         TheCode[i].n = Cardinality(LinesOf(TheCode, "PrependSlot"))
                        + (Len(TheStruct.fields) - Cardinality(LiveIndexes(TheStruct)))

\* generate() has returned true and the Start count of the table it wrote is
\* larger than the number of its Add functions
C3_Witness ==
  /\ result = "true"
  /\ Len(files) > 0
  /\ LET code == files[Len(files)].code
     IN \E i \in LinesOf(code, "StartObject") :
          code[i].n > Cardinality(LinesOf(code, "PrependSlot"))

(***************************************************************************)
(* C4.  With the object API on, a schema holding a vector of unions makes  *)
(* generation report failure: generate() never returns true for such a     *)
(* schema, nor after having written a Pack function whose body holds the   *)
(* unsupported marker.                                                     *)
(***************************************************************************)
HasVectorOfUnion(struct_def) ==
  \E i \in LiveIndexes(struct_def) :
    /\ struct_def.fields[i].type.base_type = "VECTOR"
    /\ struct_def.fields[i].type.element = "UNION"

C4_VectorOfUnionIsReported ==
  (/\ opts.generate_object_based_api
   /\ result = "true") =>
     /\ \A k \in 1..Len(parser.structs) :
          parser.structs[k].generated \/ ~ HasVectorOfUnion(parser.structs[k])
     /\ \A k \in 1..Len(files) : LinesOf(files[k].code, "pack_not_supported") = {}

(***************************************************************************)
(* C5.  The accessor of a scalar table field with schema default D returns *)
(* exactly D when the field is absent; for a bool the literal is false if  *)
(* the constant is "0" and true for any other constant.                    *)
(***************************************************************************)
\* the lines of a function body after its presence block
AbsentBranch(body) ==
  LET ends == {j \in 1..Len(body) : body[j].op = "end_if"}
      last == CHOOSE j \in ends : \A k \in ends : k <= j
  IN SubSeq(body, last + 1, Len(body))

\* the indexes of the lines declaring the accessor method called name
Accessors(code, name) == {j \in LinesOf(code, "method") : code[j].fn = name}

ScalarIndexes(struct_def) ==
  {i \in LiveIndexes(struct_def) : IsScalar(struct_def.fields[i].type.base_type)}

ExpectedDefault(field) ==
  IF field.type.base_type # "BOOL" THEN field.constant
  ELSE IF field.constant = <<"0">> THEN <<"f","a","l","s","e">>
  ELSE <<"t","r","u","e">>

C5_AbsentScalarReturnsDefault ==
  SavedTable =>
    \A i \in ScalarIndexes(TheStruct) :
      LET field == TheStruct.fields[i]
          decl == Accessors(TheCode, FieldCamel(field))
      IN /\ Cardinality(decl) = 1
         /\ \A j \in decl :
              LET body == BodyAt(TheCode, j)
              IN /\ Cardinality(LinesOf(body, "end_if")) = 1
                 /\ Len(AbsentBranch(body)) = 1
                 /\ AbsentBranch(body)[1].op = "return"
                 /\ AbsentBranch(body)[1].vals = << ExpectedDefault(field) >>

\* a table with an int of default 100 and a bool of a non-zero default
C5_Witness ==
  /\ SavedTable
  /\ \E i, k \in ScalarIndexes(TheStruct) :
       /\ TheStruct.fields[i].constant = <<"1","0","0">>
       /\ TheStruct.fields[k].type.base_type = "BOOL"
       /\ TheStruct.fields[k].constant = <<"1">>
       /\ \E j \in Accessors(TheCode, FieldCamel(TheStruct.fields[k])) :
            AbsentBranch(BodyAt(TheCode, j))[1].vals = << <<"t","r","u","e">> >>

(***************************************************************************)
(* C6.  The accessor of a string field of a table returns the empty string *)
(* when the field is absent: after its presence block it returns ''.       *)
(***************************************************************************)
StringIndexes(struct_def) ==
  {i \in LiveIndexes(struct_def) : struct_def.fields[i].type.base_type = "STRING"}

C6_AbsentStringReturnsEmpty ==
  SavedTable =>
    \A i \in StringIndexes(TheStruct) :
      \A j \in Accessors(TheCode, FieldCamel(TheStruct.fields[i])) :
        LET rest == AbsentBranch(BodyAt(TheCode, j))
        IN /\ Len(rest) = 1
           /\ rest[1].op = "return"
           /\ rest[1].vals = << <<"'","'">> >>

(***************************************************************************)
(* C7.  An accessor opens with the presence test (the vtable offset of the *)
(* field is looked up and compared with 0) exactly when the container is a *)
(* table, the Length accessor of a vector included; in a table accessor    *)
(* nothing but the return of a literal follows the presence block, so no   *)
(* decode is reached when the offset is 0.  The accessor of a fixed struct *)
(* reads at the field's byte offset without a test.                        *)
(***************************************************************************)
AccessorNames(field) ==
  {FieldCamel(field)}
  \cup (IF field.type.base_type = "VECTOR"
          THEN {FieldCamel(field) \o <<"L","e","n","g","t","h">>}
          ELSE {})

PresenceOps == {"local_o", "if_o", "end_if"}

C7_PresenceTestIffTable ==
  SavedStruct =>
    \A i \in LiveIndexes(TheStruct) :
      LET field == TheStruct.fields[i]
      IN \A name \in AccessorNames(field) :
           /\ Accessors(TheCode, name) # {}
           /\ \A j \in Accessors(TheCode, name) :
                LET body == BodyAt(TheCode, j)
                IN IF TheStruct.fixed
                     THEN /\ \A k \in 1..Len(body) : body[k].op \notin PresenceOps
                          /\ body[1].n = field.offset
                          /\ body[1].vals = << <<"p","o","s">> >>
                     ELSE /\ Len(body) >= 3
                          /\ body[1].op = "local_o"
                          /\ body[1].n = field.offset
                          /\ body[2].op = "if_o"
                          /\ \A op \in PresenceOps : Cardinality(LinesOf(body, op)) = 1
                          /\ \A k \in 1..Len(AbsentBranch(body)) :
                               AbsentBranch(body)[k].op = "return"

\* a table with a vector field: its element and Length accessors are tested
C7_Witness ==
  /\ SavedTable
  /\ \E i \in LiveIndexes(TheStruct) :
       /\ TheStruct.fields[i].type.base_type = "VECTOR"
       /\ \A name \in AccessorNames(TheStruct.fields[i]) :
            \E j \in Accessors(TheCode, name) :
              BodyAt(TheCode, j)[1].op = "local_o"

(***************************************************************************)
(* Field occurrences of a fixed struct.  A path <<i, j, ..>> names field i *)
(* of the struct, field j of the struct that field holds inline, and so    *)
(* on.                                                                     *)
(***************************************************************************)
RECURSIVE ValidPath(_, _, _)
ValidPath(structs, struct_def, p) ==
  /\ p[1] \in 1..Len(struct_def.fields)
  /\ \/ Len(p) = 1
     \/ /\ IsStruct(structs, struct_def.fields[p[1]].type)
        /\ ValidPath(structs, structs[struct_def.fields[p[1]].type.struct_def], Tail(p))

RECURSIVE FieldAt(_, _, _)
FieldAt(structs, struct_def, p) ==
  IF Len(p) = 1 THEN struct_def.fields[p[1]]
  ELSE FieldAt(structs, structs[struct_def.fields[p[1]].type.struct_def], Tail(p))

Widest(structs) ==
  CHOOSE w \in {Len(structs[k].fields) : k \in 1..Len(structs)} :
    \A k \in 1..Len(structs) : Len(structs[k].fields) <= w

Paths(structs, struct_def) ==
  {p \in UNION {[1..d -> 1..Widest(structs)] : d \in 1..Len(structs)} :
     ValidPath(structs, struct_def, p)}

LeafPaths(structs, struct_def) ==
  {p \in Paths(structs, struct_def) : ~ IsStruct(structs, FieldAt(structs, struct_def, p).type)}

IsProperPrefix(p, q) == Len(p) < Len(q) /\ SubSeq(q, 1, Len(p)) = p

\* p and q part ways at some level, and there p is the earlier declared field
DeclaredBefore(p, q) ==
  \E m \in 1..Len(p) :
    /\ m <= Len(q)
    /\ p[m] < q[m]
    /\ \A k \in 1..(m - 1) : p[k] = q[k]

\* the name of the parameter for the leaf at path p; escaped tells whether
\* reserved words get their underscore
RECURSIVE ParamName(_, _, _, _)
ParamName(structs, struct_def, p, escaped) ==
  LET field == struct_def.fields[p[1]]
      name == IF escaped /\ field.name \in keywords THEN <<"_">> \o field.name
              ELSE field.name
  IN IF Len(p) = 1 THEN MakeCamel(name, FALSE)
     ELSE name \o <<"_">>
          \o ParamName(structs, structs[field.type.struct_def], Tail(p), escaped)

\* the parameters of the Create function in code, "builder" left out
CreateAt(code) ==
  CHOOSE j \in LinesOf(code, "function") :
    /\ Len(code[j].fn) >= 6
    /\ SubSeq(code[j].fn, 1, 6) = <<"C","r","e","a","t","e">>

CreateParams(code) == Tail(code[CreateAt(code)].args)

\* params lists the leaves of the struct depth first in declared order, each
\* under the name ParamName gives it
ParamsAre(params, structs, struct_def, escaped) ==
  LET leaves == LeafPaths(structs, struct_def)
  IN /\ Len(params) = Cardinality(leaves)
     /\ \A p \in leaves :
          params[1 + Cardinality({q \in leaves : DeclaredBefore(q, p)})]
            = ParamName(structs, struct_def, p, escaped)

StartEndOfVec3(structs, struct_def) ==
  /\ Len(struct_def.fields) = 2
  /\ struct_def.fields[1].name = <<"s","t","a","r","t">>
  /\ struct_def.fields[2].name = <<"e","n","d">>
  /\ \A i \in 1..2 :
       /\ IsStruct(structs, struct_def.fields[i].type)
       /\ structs[struct_def.fields[i].type.struct_def].name = <<"V","e","c","3">>

(***************************************************************************)
(* C8.  As stated: the parameters of a Create function after the builder   *)
(* are the leaf scalar fields, depth first in declared order, each named   *)
(* by its ancestors' field names joined with "_" before the leaf's name;   *)
(* for Line { start: Vec3; end: Vec3 } they are start_x, start_y, start_z, *)
(* end_x, end_y, end_z.                                                    *)
(***************************************************************************)
C8_ParamsPrefixedByFieldNames ==
  SavedFixed =>
    /\ ParamsAre(CreateParams(TheCode), parser.structs, TheStruct, FALSE)
    /\ StartEndOfVec3(parser.structs, TheStruct) =>
         CreateParams(TheCode)
           = << <<"s","t","a","r","t","_","x">>, <<"s","t","a","r","t","_","y">>,
                <<"s","t","a","r","t","_","z">>, <<"e","n","d","_","x">>,
                <<"e","n","d","_","y">>, <<"e","n","d","_","z">> >>

(***************************************************************************)
(* C8, amended.  The parameters after the builder are the leaf scalar      *)
(* fields, depth first in declared order; each is named by its ancestors'  *)
(* field names, a reserved word of Lua among them written with a leading   *)
(* "_", each followed by "_", and then the leaf's name, escaped the same   *)
(* way and put in lower camel case.  For Line { start: Vec3; end: Vec3 }   *)
(* they are start_x, start_y, start_z, _end_x, _end_y, _end_z.             *)
(***************************************************************************)
C8_ParamsPrefixedByEscapedFieldNames ==
  SavedFixed =>
    /\ ParamsAre(CreateParams(TheCode), parser.structs, TheStruct, TRUE)
    /\ StartEndOfVec3(parser.structs, TheStruct) =>
         CreateParams(TheCode)
           = << <<"s","t","a","r","t","_","x">>, <<"s","t","a","r","t","_","y">>,
                <<"s","t","a","r","t","_","z">>, <<"_","e","n","d","_","x">>,
                <<"_","e","n","d","_","y">>, <<"_","e","n","d","_","z">> >>

\* Line { start: Vec3; end: Vec3 } has been generated with its six parameters
C8_Witness ==
  /\ SavedFixed
  /\ StartEndOfVec3(parser.structs, TheStruct)
  /\ Len(CreateParams(TheCode)) = 6

(***************************************************************************)
(* C9.  The body of a Create function writes the fields in reverse         *)
(* declared order at every nesting level (a nested struct's Prep first,    *)
(* then its fields last to first), and holds a Pad(n) statement exactly    *)
(* for the fields whose padding n is not zero, right before that field's   *)
(* own statements.                                                         *)
(***************************************************************************)
\* the statements of the Create function after its opening Prep
CreateBody(code) == Tail(BodyAt(code, CreateAt(code)))

WriteOps == {"Prep", "Prepend"}

C9_BodyReversedAndPadded ==
  SavedFixed =>
    LET body == CreateBody(TheCode)
        structs == parser.structs
        paths == Paths(structs, TheStruct)
        writes == {k \in 1..Len(body) : body[k].op \in WriteOps}
        pads == LinesOf(body, "Pad")
    IN /\ \A p \in paths :
            LET field == FieldAt(structs, TheStruct, p)
            IN /\ Cardinality({k \in writes : body[k].path = p}) = 1
               /\ \A k \in writes :
                    body[k].path = p =>
                      (body[k].op = "Prep") = IsStruct(structs, field.type)
               /\ Cardinality({k \in pads : body[k].path = p})
                    = IF field.padding # 0 THEN 1 ELSE 0
       /\ \A k \in writes : body[k].path \in paths
       /\ \A k, l \in writes :
            k < l => \/ IsProperPrefix(body[k].path, body[l].path)
                     \/ DeclaredBefore(body[l].path, body[k].path)
       /\ \A k \in pads :
            /\ body[k].path \in paths
            /\ body[k].n = FieldAt(structs, TheStruct, body[k].path).padding
            /\ body[k].n # 0
            /\ k + 1 \in writes
            /\ body[k + 1].path = body[k].path

\* a struct two levels deep has been generated, with padding inside the
\* nested struct and fields without padding
C9_Witness ==
  /\ SavedFixed
  /\ LET body == CreateBody(TheCode)
     IN /\ \E k \in LinesOf(body, "Pad") : Len(body[k].path) >= 2
        /\ \E k \in LinesOf(body, "Prepend") :
             /\ Len(body[k].path) = 3
             /\ FieldAt(parser.structs, TheStruct, body[k].path).padding = 0

(***************************************************************************)
(* C10.  Escaping is idempotent, Escape(Escape(n)) = Escape(n), and leaves *)
(* a name that is not reserved as it is: for the names of the schema, the  *)
(* reserved words and their escaped forms.                                 *)
(***************************************************************************)
SchemaNames ==
  {parser.structs[k].name : k \in 1..Len(parser.structs)}
  \cup {parser.enums[k].name : k \in 1..Len(parser.enums)}
  \cup UNION {{parser.structs[k].fields[i].name : i \in 1..Len(parser.structs[k].fields)} :
                k \in 1..Len(parser.structs)}

EscapeInputs ==
  SchemaNames \cup keywords \cup {<<"_">> \o n : n \in SchemaNames \cup keywords}

C10_EscapeIdempotent ==
  \A n \in EscapeInputs :
    /\ EscapeKeyword(EscapeKeyword(n)) = EscapeKeyword(n)
    /\ n \notin keywords => EscapeKeyword(n) = n

\* a field named by a reserved word has its accessor under the escaped name
C10_Witness ==
  /\ SavedStruct
  /\ \E i \in LiveIndexes(TheStruct) :
       /\ TheStruct.fields[i].name \in keywords
       /\ Accessors(TheCode, MakeCamel(<<"_">> \o TheStruct.fields[i].name, TRUE)) # {}

(***************************************************************************)
(* C11.  Escaping never makes two identifiers of a scope collide: two      *)
(* values of one enum with different names have different escaped names,   *)
(* and so the emitted enum table holds a member of its own for each.       *)
(***************************************************************************)
SavedEnum == pc = "enums" /\ it > 1 /\ ~ parser.enums[it - 1].generated

TheEnum == parser.enums[it - 1]

C11_EscapeInjectiveInScope ==
  SavedEnum =>
    \A i, j \in 1..Len(TheEnum.vals) :
      TheEnum.vals[i].name # TheEnum.vals[j].name =>
        /\ EscapeKeyword(TheEnum.vals[i].name) # EscapeKeyword(TheEnum.vals[j].name)
        /\ Cardinality({k \in LinesOf(TheCode, "enum_member") :
                          TheCode[k].fn = EscapeKeyword(TheEnum.vals[i].name)}) = 1

(***************************************************************************)
(* C12.  In the Pack function of a table every statement that serializes   *)
(* a child with an offset of its own (CreateString, Pack of a nested       *)
(* table, the StartVector..EndVector bracket of a vector, Union.Pack)      *)
(* comes before Start(builder); between Start(builder) and End(builder)    *)
(* there are only Add calls, and an Add call that passes an offset         *)
(* variable passes one assigned before Start(builder).                     *)
(***************************************************************************)
\* the body of the method Pack of the saved definition
PackBody == BodyAt(TheCode, CHOOSE j \in Accessors(TheCode, <<"P","a","c","k">>) : TRUE)

ChildOps ==
  {"pack_local_child", "pack_local_string", "pack_local_union", "pack_array_elem",
   "pack_StartVector", "pack_prepend_elem", "pack_prepend_struct",
   "pack_prepend_offset", "pack_EndVector"}

AssignOps ==
  {"pack_local_child", "pack_local_string", "pack_local_zero",
   "pack_local_union_type", "pack_local_union"}

\* the field's value lives outside the table and is referred to by an offset
NeedsOffset(structs, field) ==
  \/ field.type.base_type \in {"STRING", "VECTOR", "UNION"}
  \/ field.type.base_type = "STRUCT" /\ ~ structs[field.type.struct_def].fixed

C12_ChildrenPackedBeforeStart ==
  (SavedTable /\ opts.generate_object_based_api) =>
    LET body == PackBody
        starts == LinesOf(body, "pack_Start")
        ends == LinesOf(body, "pack_return_End")
    IN /\ Cardinality(starts) = 1
       /\ ends = {Len(body)}
       /\ \A start \in starts :
            /\ \A k \in 1..Len(body) : body[k].op \in ChildOps => k < start
            /\ \A k \in (start + 1)..(Len(body) - 1) :
                 /\ body[k].op = "pack_Add"
                 /\ body[k].vals[2][1] = "_" =>
                      \E a \in 1..(start - 1) :
                        body[a].op \in AssignOps /\ body[a].fn = body[k].vals[2]
            /\ \A i \in LiveIndexes(TheStruct) :
                 NeedsOffset(parser.structs, TheStruct.fields[i]) =>
                   /\ \E k \in (start + 1)..(Len(body) - 1) :
                        body[k].vals[2] = <<"_">> \o TheStruct.fields[i].name
                   /\ \E a \in 1..(start - 1) :
                        /\ body[a].op \in ChildOps
                        /\ body[a].fn = <<"_">> \o TheStruct.fields[i].name

\* a table with a string and a vector: both are packed, then the table starts
C12_Witness ==
  /\ SavedTable
  /\ opts.generate_object_based_api
  /\ \E i, j \in LiveIndexes(TheStruct) :
       /\ TheStruct.fields[i].type.base_type = "STRING"
       /\ TheStruct.fields[j].type.base_type = "VECTOR"
  /\ \E a \in LinesOf(PackBody, "pack_local_string"), b \in LinesOf(PackBody, "pack_EndVector"),
        c \in LinesOf(PackBody, "pack_Start") : a < c /\ b < c

(***************************************************************************)
(* C13.  In Pack, a vector of scalars or of inline fixed structs is packed *)
(* by prepending its elements directly, last to first, between            *)
(* StartVector and EndVector, with no list of offsets in between; a vector *)
(* of strings or of tables first packs every element into a list of       *)
(* offsets and then prepends the offsets, last to first, between          *)
(* StartVector and EndVector.                                              *)
(***************************************************************************)
\* the lines Pack holds for the vector field: from "local _<name> = 0" to the
\* end of its "if"
VectorBlock(body, field) ==
  LET first == CHOOSE k \in LinesOf(body, "pack_local_zero") :
                 body[k].fn = <<"_">> \o field.name
      closes == {k \in LinesOf(body, "pack_end_if") : k > first}
      last == CHOOSE k \in closes : \A l \in closes : k <= l
  IN SubSeq(body, first, last)

\* the ops of the lines of block strictly between StartVector and EndVector
Bracket(block) ==
  LET a == CHOOSE k \in LinesOf(block, "pack_StartVector") : TRUE
      b == CHOOSE k \in LinesOf(block, "pack_EndVector") : TRUE
  IN [k \in 1..(b - a - 1) |-> block[a + k].op]

InlineElements(structs, field) ==
  \/ IsScalar(field.type.element)
  \/ field.type.element = "STRUCT" /\ structs[field.type.struct_def].fixed

RelocatableElements(structs, field) ==
  \/ field.type.element = "STRING"
  \/ field.type.element = "STRUCT" /\ ~ structs[field.type.struct_def].fixed

C13_VectorPackedByElementKind ==
  (SavedTable /\ opts.generate_object_based_api) =>
    \A i \in LiveIndexes(TheStruct) :
      LET field == TheStruct.fields[i]
          block == VectorBlock(PackBody, field)
      IN field.type.base_type = "VECTOR" =>
           /\ Cardinality(LinesOf(block, "pack_StartVector")) = 1
           /\ Cardinality(LinesOf(block, "pack_EndVector")) = 1
           /\ InlineElements(parser.structs, field) =>
                /\ LinesOf(block, "pack_local_array") = {}
                /\ LinesOf(block, "pack_array_elem") = {}
                /\ Bracket(block) \in
                     { <<"pack_for_reverse", "pack_prepend_elem", "pack_end">>,
                       <<"pack_for_reverse", "pack_prepend_struct", "pack_end">> }
           /\ RelocatableElements(parser.structs, field) =>
                /\ \E a \in LinesOf(block, "pack_array_elem"),
                      b \in LinesOf(block, "pack_StartVector") : a < b
                /\ Bracket(block)
                     = <<"pack_for_reverse", "pack_prepend_offset", "pack_end">>

\* the lines of the mirror constructor of the saved struct or table
MirrorCtor ==
  LET a == CHOOSE k \in LinesOf(TheCode, "ctor_begin") : TRUE
      b == CHOOSE k \in LinesOf(TheCode, "ctor_end") : TRUE
  IN SubSeq(TheCode, a + 1, b - 1)

\* the lines of ctor that assign this.<Field>
CtorLinesOf(ctor, field) ==
  {k \in 1..Len(ctor) :
     ctor[k].fn = <<"t","h","i","s",".">> \o MakeCamel(field.name, TRUE)}

FieldsOfKind(struct_def, kinds) ==
  {i \in LiveIndexes(struct_def) : struct_def.fields[i].type.base_type \in kinds}

(***************************************************************************)
(* C14.  As stated: the mirror constructor sets every struct-valued,       *)
(* table-valued and union-valued field to nil and constructs nothing.      *)
(***************************************************************************)
C14_MirrorFieldsStartAbsent ==
  (SavedStruct /\ opts.generate_object_based_api) =>
    /\ LinesOf(MirrorCtor, "ctor_construct") = {}
    /\ \A i \in FieldsOfKind(TheStruct, {"STRUCT", "UNION"}) :
         /\ CtorLinesOf(MirrorCtor, TheStruct.fields[i]) # {}
         /\ \A k \in CtorLinesOf(MirrorCtor, TheStruct.fields[i]) :
              MirrorCtor[k].op = "ctor_nil"

(***************************************************************************)
(* C14, amended.  The mirror constructor sets every struct-valued and      *)
(* table-valued field to nil; a union-valued field it sets to a new union  *)
(* container, require('<union>').Union(), and the constructor of a union   *)
(* container sets Type = 0 and Value = nil and constructs nothing.  So     *)
(* constructing a mirror constructs one empty union container per union    *)
(* field and never another mirror, also on cyclic schema graphs.           *)
(***************************************************************************)
C14_MirrorConstructsOnlyUnionContainers ==
  /\ (SavedStruct /\ opts.generate_object_based_api) =>
       /\ \A i \in FieldsOfKind(TheStruct, {"STRUCT"}) :
            /\ Cardinality(CtorLinesOf(MirrorCtor, TheStruct.fields[i])) = 1
            /\ \A k \in CtorLinesOf(MirrorCtor, TheStruct.fields[i]) :
                 /\ MirrorCtor[k].op = "ctor_nil"
                 /\ MirrorCtor[k].vals = << <<"n","i","l">> >>
       /\ \A i \in FieldsOfKind(TheStruct, {"UNION"}) :
            /\ Cardinality(CtorLinesOf(MirrorCtor, TheStruct.fields[i])) = 1
            /\ \A k \in CtorLinesOf(MirrorCtor, TheStruct.fields[i]) :
                 /\ MirrorCtor[k].op = "ctor_construct"
                 /\ MirrorCtor[k].call = <<"U","n","i","o","n">>
                 /\ MirrorCtor[k].cls
                      = Join(parser.enums[TheStruct.fields[i].type.enum_def].ns,
                             parser.enums[TheStruct.fields[i].type.enum_def].name)
       /\ Cardinality(LinesOf(MirrorCtor, "ctor_construct"))
            = Cardinality(FieldsOfKind(TheStruct, {"UNION"}))
  /\ (SavedEnum /\ opts.generate_object_based_api /\ TheEnum.is_union) =>
       LET a == CHOOSE k \in LinesOf(TheCode, "union_ctor_begin") : TRUE
       IN /\ TheCode[a + 1].op = "ctor_literal"
          /\ TheCode[a + 1].fn = <<"t","h","i","s",".","T","y","p","e">>
          /\ TheCode[a + 1].vals = << <<"0">> >>
          /\ TheCode[a + 2].op = "ctor_nil"
          /\ TheCode[a + 2].fn = <<"t","h","i","s",".","V","a","l","u","e">>
          /\ TheCode[a + 3].op = "ctor_end"

\* a table that refers to its own type and holds a union: its constructor
\* leaves the table field nil and constructs the union container
C14_Witness ==
  /\ SavedTable
  /\ opts.generate_object_based_api
  /\ \E i \in FieldsOfKind(TheStruct, {"STRUCT"}), j \in FieldsOfKind(TheStruct, {"UNION"}) :
       /\ parser.structs[TheStruct.fields[i].type.struct_def] = TheStruct
       /\ \E k \in CtorLinesOf(MirrorCtor, TheStruct.fields[i]) :
            MirrorCtor[k].op = "ctor_nil"
       /\ \E k \in CtorLinesOf(MirrorCtor, TheStruct.fields[j]) :
            MirrorCtor[k].op = "ctor_construct"

(***************************************************************************)
(* C15.  The dispatch table emitted for a union enum has one entry for     *)
(* each value of the enum other than 0, in declared order, and none for 0; *)
(* UnPackTo decodes a union payload only inside the test that the          *)
(* dispatch table has an entry, so the discriminant 0 decodes nothing.     *)
(***************************************************************************)
NonZeroVals(enum_def) == SelectSeq(enum_def.vals, LAMBDA ev : ev.value # <<"0">>)

\* the lines of code with template op, in order
LinesInOrder(code, op) == SelectSeq(code, LAMBDA line : line.op = op)

DecodeOps == {"local_d", "if_d", "if_t_string", "assign_Value", "local_v_New", "v_Init"}

C16_UnionContainerHasAccessor ==
  (SavedEnum /\ opts.generate_object_based_api /\ TheEnum.is_union) =>
    /\ LinesOf(TheCode, "union_begin") # {}
    /\ \E k \in 1..Len(TheCode) : TheCode[k].op \in {"method", "function"}

(***************************************************************************)
(* C17.  The accessor of a nested fixed-struct field, in a fixed struct    *)
(* and in a table alike, takes the accessor instance from its caller,      *)
(* initializes it at the computed address and returns it; it allocates no  *)
(* instance.                                                               *)
(***************************************************************************)
FixedStructIndexes(structs, struct_def) ==
  {i \in LiveIndexes(struct_def) : IsStruct(structs, struct_def.fields[i].type)}

C17_StructAccessorReusesInstance ==
  SavedStruct =>
    \A i \in FixedStructIndexes(parser.structs, TheStruct) :
      \A j \in Accessors(TheCode, FieldCamel(TheStruct.fields[i])) :
        LET body == BodyAt(TheCode, j)
        IN /\ TheCode[j].args = << <<"o","b","j">> >>
           /\ LinesOf(body, "local_obj_New") = {}
           /\ LinesOf(body, "obj_Init") # {}
           /\ \E k \in LinesOf(body, "return") : body[k].vals = << <<"o","b","j">> >>

(***************************************************************************)
(* C18.  Generation is deterministic and has no feedback: when generate()  *)
(* has returned, the artifacts it wrote are the first artifacts of the one *)
(* sequence the schema and the options determine (all of it when it        *)
(* returned true): the enums in declared order, then the structs and       *)
(* tables in declared order, each under the name and with the text that    *)
(* its definition gives when no definition after it is generated at all.   *)
(***************************************************************************)
\* the schema with the structs after the k-th marked as already generated
StructsUpTo(schema, k) ==
  [schema EXCEPT !.structs =
     [i \in 1..Len(schema.structs) |->
        IF i > k THEN [schema.structs[i] EXCEPT !.generated = TRUE]
        ELSE schema.structs[i]]]

\* the schema with the enums after the k-th and all structs marked so
EnumsUpTo(schema, k) ==
  [StructsUpTo(schema, 0) EXCEPT !.enums =
     [i \in 1..Len(schema.enums) |->
        IF i > k THEN [schema.enums[i] EXCEPT !.generated = TRUE]
        ELSE schema.enums[i]]]

\* the artifacts a run that saves every file writes, in order
DeterminedFiles(schema, options) ==
  Flatten([k \in 1..Len(schema.enums) |->
             LET code == GenEnum(EnumsUpTo(schema, k), options, schema.enums[k])
             IN IF code = <<>> THEN <<>>
                ELSE << Artifact(schema.enums[k], code, FALSE) >>])
  \o Flatten([k \in 1..Len(schema.structs) |->
                LET code == GenStruct(StructsUpTo(schema, k), options, schema.structs[k])
                IN IF code = <<>> THEN <<>>
                   ELSE << Artifact(schema.structs[k], code, TRUE) >>])

SupportedShape(field) ==
  field.type.base_type = "VECTOR" => field.type.element \notin {"UNION", "UTYPE"}

UnPackToBody ==
  BodyAt(TheCode, CHOOSE j \in Accessors(TheCode, <<"U","n","P","a","c","k","T","o">>) : TRUE)

StoreOps ==
  {"assign_accessor", "assign_UnPack", "assign_UnPack_or_nil", "assign_table",
   "assign_Union"}

\* the functions the module of the saved table defines for a builder
BuilderFunctions ==
  {TheCode[k].fn : k \in LinesOf(TheCode, "StartObject") \cup LinesOf(TheCode, "PrependSlot")
                        \cup LinesOf(TheCode, "StartVector")
                        \cup LinesOf(TheCode, "EndObject")}

C19_PackThenUnPackIsIdentity ==
  (/\ SavedTable
   /\ opts.generate_object_based_api
   /\ \A i \in LiveIndexes(TheStruct) : SupportedShape(TheStruct.fields[i])) =>
     /\ \A i \in LiveIndexes(TheStruct) :
          TheStruct.fields[i].type.base_type # "UTYPE" =>
            \E k \in 1..Len(UnPackToBody) :
              /\ UnPackToBody[k].op \in StoreOps
              /\ UnPackToBody[k].fn
                   = <<"o",".">> \o MakeCamel(TheStruct.fields[i].name, TRUE)
     /\ \A k \in 1..Len(PackBody) :
          PackBody[k].op \in {"pack_Start", "pack_Add", "pack_StartVector",
                              "pack_return_End"} =>
            PackBody[k].call \in BuilderFunctions

(***************************************************************************)
(* C20.  For a union field X of a table, UnPackTo stores the pair under    *)
(* o.X, o being the mirror it fills: o.X is set to a new container, o.X.   *)
(* Type to the value of the sibling type accessor, and o.X.Value to the    *)
(* payload decoded through the dispatch table's entry for o.X.Type, and to *)
(* nothing when there is no entry (the discriminant 0).                    *)
(***************************************************************************)
C20_UnionStoredUnderMirror ==
  (SavedTable /\ opts.generate_object_based_api) =>
    \A i \in FieldsOfKind(TheStruct, {"UNION"}) :
      LET body == UnPackToBody
          camel_name == MakeCamel(TheStruct.fields[i].name, TRUE)
          target == <<"o",".">> \o camel_name
      IN /\ \E k \in LinesOf(body, "assign_Union") : body[k].fn = target
         /\ \E k \in LinesOf(body, "assign_Type") :
              /\ body[k].fn = target \o <<".","T","y","p","e">>
              /\ body[k].call = camel_name \o <<"T","y","p","e">>
         /\ \E k \in LinesOf(body, "local_t") :
              body[k].vals = << target \o <<".","T","y","p","e">> >>
         /\ \A k \in LinesOf(body, "assign_Value") :
              body[k].fn = target \o <<".","V","a","l","u","e">>

(***************************************************************************)
(* C21.  For every vector field of a table, the element accessor for the   *)
(* 1-based index j addresses the vector's base plus (j-1) times the inline *)
(* size of the element (the bytesize of a fixed struct, the width of a     *)
(* scalar, four bytes for an offset); where the elements are structs, it   *)
(* follows one more offset before initialising the element's accessor      *)
(* exactly when the element is a table, never when it is a fixed struct.   *)
(***************************************************************************)
VectorIndexes(struct_def) ==
  {i \in LiveIndexes(struct_def) : struct_def.fields[i].type.base_type = "VECTOR"}

\* the inline size of an element, by its kind
ElementStride(structs, type) ==
  CASE type.element = "STRUCT" /\ structs[type.struct_def].fixed ->
         structs[type.struct_def].bytesize
    [] type.element \in {"UCHAR", "UTYPE", "BOOL", "CHAR"} -> 1
    [] type.element \in {"SHORT", "USHORT"} -> 2
    [] type.element \in {"LONG", "ULONG", "DOUBLE"} -> 8
    [] OTHER -> 4

StrideOps == {"x_add_index", "return_call_index"}

C21_VectorElementAddressing ==
  SavedTable =>
    \A i \in VectorIndexes(TheStruct) :
      LET field == TheStruct.fields[i]
          js == Accessors(TheCode, FieldCamel(field))
      IN /\ Cardinality(js) = 1
         /\ \A j \in js :
              LET body == BodyAt(TheCode, j)
                  strides == {k \in 1..Len(body) : body[k].op \in StrideOps}
                  indirects == LinesOf(body, "x_Indirect")
                  inits == LinesOf(body, "obj_Init")
              IN /\ TheCode[j].args = << <<"j">> >>
                 /\ Cardinality(strides) = 1
                 /\ \A k \in strides :
                      body[k].n = ElementStride(parser.structs, field.type)
                 /\ field.type.element = "STRUCT" =>
                      /\ Cardinality(inits) = 1
                      /\ \A k \in strides : body[k].op = "x_add_index"
                      /\ IF parser.structs[field.type.struct_def].fixed
                           THEN indirects = {}
                           ELSE /\ Cardinality(indirects) = 1
                                /\ \A a \in strides, b \in indirects, c \in inits :
                                     a < b /\ b < c
                 /\ field.type.element # "STRUCT" => indirects = {}

\* a table with a vector of fixed structs and a vector of tables is saved
C21_Witness ==
  /\ SavedTable
  /\ \E i \in VectorIndexes(TheStruct) :
       /\ TheStruct.fields[i].type.element = "STRUCT"
       /\ parser.structs[TheStruct.fields[i].type.struct_def].fixed
       /\ ElementStride(parser.structs, TheStruct.fields[i].type) = 12
  /\ \E i \in VectorIndexes(TheStruct) :
       /\ TheStruct.fields[i].type.element = "STRUCT"
       /\ ~ parser.structs[TheStruct.fields[i].type.struct_def].fixed

(***************************************************************************)
(* C22.  generate() saves at most one file per definition, in order: the   *)
(* enums, then the structs, each in stored order.  A definition marked     *)
(* generated yields no file.  When a save fails, generate() returns false  *)
(* and no later definition is processed; it returns true only when every   *)
(* definition not marked generated has its file.                           *)
(***************************************************************************)
\* the definitions in the order generate() visits them
Definitions ==
  [i \in 1..(Len(parser.enums) + Len(parser.structs)) |->
     LET def == IF i <= Len(parser.enums) THEN parser.enums[i]
                ELSE parser.structs[i - Len(parser.enums)]
     IN [name |-> def.name, ns |-> def.ns, generated |-> def.generated]]

\* the files are those of the first k definitions, the generated ones left out
FilesOfFirst(k) ==
  LET attempted == SelectSeq(SubSeq(Definitions, 1, k), LAMBDA def : ~ def.generated)
  IN /\ Len(files) = Len(attempted)
     /\ \A i \in 1..Len(attempted) :
          /\ files[i].dir = attempted[i].ns
          /\ files[i].name = EscapeKeyword(attempted[i].name) \o <<".","l","u","a">>

C22_OneFilePerDefinitionInOrder ==
  /\ (pc = "enums" /\ it <= Len(parser.enums) + 1) => FilesOfFirst(it - 1)
  /\ (pc = "structs" /\ it <= Len(parser.structs) + 1) =>
       FilesOfFirst(Len(parser.enums) + it - 1)
  /\ result = "true" => pc = "done" /\ FilesOfFirst(Len(Definitions))
  /\ result = "false" =>
       /\ pc = "done"
       /\ \E k \in 0..(Len(Definitions) - 1) :
            /\ FilesOfFirst(k)
            /\ ~ Definitions[k + 1].generated
  /\ pc = "done" => result \in {"true", "false"}
  /\ pc # "done" => result = "none"

\* a save failed after a file was written and a generated definition skipped
C22_Witness ==
  /\ result = "false"
  /\ Len(files) = 1
  /\ it = 2
  /\ parser.structs[1].generated
  /\ Len(parser.structs) >= 2

(***************************************************************************)
(* C23.  For every fixed struct, the emitted Pack passes to Create<Type>,  *)
(* after the builder, as many arguments as Create<Type> declares           *)
(* parameters, nested fixed-struct fields included.                        *)
(***************************************************************************)
\* the arguments of the Create call of Pack, "builder" left out
PackCreateArgs(code) ==
  Tail(code[CHOOSE k \in LinesOf(code, "pack_return_Create") : TRUE].vals)

C23_PackPassesEveryCreateParameter ==
  (SavedFixed /\ opts.generate_object_based_api) =>
    /\ Cardinality(LinesOf(TheCode, "pack_return_Create")) = 1
    /\ Len(PackCreateArgs(TheCode)) = Len(CreateParams(TheCode))

(***************************************************************************)
(* C24.  Every builder function the emitted Pack of a table calls on its   *)
(* own type (Start, Add<Field>, Start<Field>Vector, End) is a function the *)
(* builder emitter defines for that type under the same name, whatever the *)
(* field is called: lower-case, with underscores, or a reserved word.      *)
(***************************************************************************)
PackBuilderOps == {"pack_Start", "pack_Add", "pack_StartVector", "pack_return_End"}

BuilderOps == {"StartObject", "PrependSlot", "StartVector", "EndObject"}

C24_PackCallsDefinedBuilders ==
  (SavedTable /\ opts.generate_object_based_api) =>
    \A k \in 1..Len(PackBody) :
      PackBody[k].op \in PackBuilderOps =>
        \E j \in 1..Len(TheCode) :
          /\ TheCode[j].op \in BuilderOps
          /\ TheCode[j].cls = PackBody[k].cls
          /\ TheCode[j].fn = PackBody[k].call

(***************************************************************************)
(* C25.  For every fixed struct, at any nesting depth, the value names the *)
(* Prepend statements of the Create body consume, read top to bottom, are  *)
(* the parameters of the Create signature read right to left: every        *)
(* parameter is prepended once and no other name is used.                  *)
(***************************************************************************)
\* the names the Prepend statements of the Create function consume, in order
PrependedNames(code) ==
  LET prepends == LinesInOrder(BodyAt(code, CreateAt(code)), "Prepend")
  IN [k \in 1..Len(prepends) |-> prepends[k].vals]

C25_PrependsAreParamsReversed ==
  SavedFixed =>
    LET names == PrependedNames(TheCode)
        params == CreateParams(TheCode)
    IN /\ Len(names) = Len(params)
       /\ \A k \in 1..Len(names) : names[k] = << params[Len(params) + 1 - k] >>

\* a struct three levels deep is saved: a leaf lies under two nested structs
C25_Witness ==
  /\ SavedFixed
  /\ \E p \in LeafPaths(parser.structs, TheStruct) : Len(p) = 3
  /\ Len(CreateParams(TheCode)) >= 5

=============================================================================
